---- MODULE Spec2Model ----
(***************************************************************************)
(* Model of the schedule optimizer (backend/scraper/optimizer.py):         *)
(* the time-interval model, the catalog normalizer, the requirement        *)
(* resolver, the conflict-pruned combination search, the scoring model     *)
(* and the ranking of optimize_courses.                                    *)
(*                                                                         *)
(* Times are minutes since midnight.  Scores are integers in hundredths    *)
(* (the code rounds every score to two decimals).                          *)
(***************************************************************************)
EXTENDS Integers, Sequences, FiniteSets, TLC

VARIABLES
    \* --- MeetingTime.overlaps_with applied to a pair -------------------
    mt_a, mt_b, ov_ab, ov_ba, ov_pc,
    \* --- CourseCombo.generate_section_combinations --------------------
    courses, combos, course_idx, gen_pc, gen_result,
    \* --- compute_section_credits ---------------------------------------
    cr_section, cr_pc, cr_out,
    \* --- evaluate_schedule ---------------------------------------------
    sc_schedule, sc_penalties, sc_idx, sc_score, sc_pc, sc_result,
    \* --- optimize_courses ----------------------------------------------
    courses_data,         \* argument: the raw records
    options,              \* argument: the OptimizationOptions object
    kwargs,               \* arguments: the keyword overrides
    opts,                 \* the resolved options
    pc,                   \* position in optimize_courses
    rec_idx,              \* index of the next record to normalize
    courses_dict,         \* code -> Course or None
    hass_dict,            \* the elective courses, in insertion order
    requirements,         \* name -> CourseRequirement, in insertion order
    course_combinations,  \* the course slates
    valid_schedules,      \* the candidates of all slates
    scored,               \* the candidates with their scores, sorted
    output,               \* the returned mapping, in insertion order
    outcome               \* "running", "returned" or the exception raised

ovVars  == <<mt_a, mt_b, ov_ab, ov_ba, ov_pc>>
genVars == <<courses, combos, course_idx, gen_pc, gen_result>>
crVars  == <<cr_section, cr_pc, cr_out>>
scVars  == <<sc_schedule, sc_penalties, sc_idx, sc_score, sc_pc, sc_result>>
inVars  == <<courses_data, options, kwargs>>
optVars == <<opts, pc, rec_idx, courses_dict, hass_dict, requirements,
             course_combinations, valid_schedules, scored, output, outcome>>
vars    == <<ovVars, genVars, crVars, scVars, inVars, optVars>>

------------------------------------------------------------------------
(* Bounds of the explored inputs                                          *)

\* number of courses of a slate handed to the search engine
MaxSlate == 3
\* number of sections of one course of such a slate
MaxSections == 2

------------------------------------------------------------------------
(* Generic helpers                                                        *)

Range(s) == {s[i] : i \in 1..Len(s)}

\* sequences over S of length 0..n
SeqUpTo(S, n) == UNION {[1..k -> S] : k \in 0..n}

\* sequences over S of length 0..n without repeated elements
InjSeqUpTo(S, n) == {s \in SeqUpTo(S, n) : \A i, j \in 1..Len(s) : i # j => s[i] # s[j]}

RECURSIVE Concat(_)
\* flatten a sequence of sequences (list.extend in a loop)
Concat(ss) == IF ss = <<>> THEN <<>> ELSE Head(ss) \o Concat(Tail(ss))

Abs(x) == IF x < 0 THEN -x ELSE x

RECURSIVE SumSeq(_)
SumSeq(q) == IF q = <<>> THEN 0 ELSE Head(q) + SumSeq(Tail(q))

SetMin(S) == CHOOSE x \in S : \A y \in S : x <= y
SetMax(S) == CHOOSE x \in S : \A y \in S : x >= y

------------------------------------------------------------------------
(* Natural numbers of any size, as the sequence of their digits in base   *)
(* 2^15, the lowest digit first and no zero digit at the top; they carry  *)
(* the 53-bit significands of Python's floats.                            *)

LimbBase == 32768
LimbBits == 15

RECURSIVE BigOf(_)
\* the natural number n
BigOf(n) == IF n = 0 THEN <<>> ELSE <<n % LimbBase>> \o BigOf(n \div LimbBase)

RECURSIVE BigToInt(_)
\* back to a number, for values that fit
BigToInt(a) == IF a = <<>> THEN 0 ELSE Head(a) + LimbBase * BigToInt(Tail(a))

\* a without the zero digits at its top
BigTrim(a) ==
    LET used == {i \in 1..Len(a) : a[i] # 0}
    IN  IF used = {} THEN <<>>
        ELSE SubSeq(a, 1, CHOOSE i \in used : \A j \in used : j <= i)

BigLimb(a, i) == IF i <= Len(a) THEN a[i] ELSE 0

Longer(a, b) == IF Len(a) < Len(b) THEN Len(b) ELSE Len(a)

\* the carry into digit i of a + b: a lower digit overflows and every
\* digit in between is full
CarryInto(a, b, i) ==
    IF \E j \in 1..(i - 1) :
          /\ BigLimb(a, j) + BigLimb(b, j) >= LimbBase
          /\ \A l \in (j + 1)..(i - 1) : BigLimb(a, l) + BigLimb(b, l) = LimbBase - 1
    THEN 1 ELSE 0

BigAdd(a, b) ==
    IF a = <<>> THEN b
    ELSE IF b = <<>> THEN a
    ELSE BigTrim([i \in 1..(Longer(a, b) + 1) |->
                (BigLimb(a, i) + BigLimb(b, i) + CarryInto(a, b, i)) % LimbBase])

\* the borrow from digit i of a - b
BorrowFrom(a, b, i) ==
    IF \E j \in 1..(i - 1) :
          /\ BigLimb(a, j) < BigLimb(b, j)
          /\ \A l \in (j + 1)..(i - 1) : BigLimb(a, l) = BigLimb(b, l)
    THEN 1 ELSE 0

\* a - b, for a >= b
BigSub(a, b) ==
    IF b = <<>> THEN a
    ELSE BigTrim([i \in 1..Len(a) |->
                (a[i] - BigLimb(b, i) - BorrowFrom(a, b, i) + LimbBase) % LimbBase])

\* -1, 0 or 1 as a < b, a = b or a > b: the highest digit that differs decides
BigCmp(a, b) ==
    LET differ == {i \in 1..Longer(a, b) : BigLimb(a, i) # BigLimb(b, i)}
        top == CHOOSE i \in differ : \A j \in differ : j <= i
    IN  IF differ = {} THEN 0
        ELSE IF BigLimb(a, top) < BigLimb(b, top) THEN -1
        ELSE 1

\* a * k, for 0 <= k <= 2^15: the low halves of the digit products plus
\* their high halves one place up
BigMulSmall(a, k) ==
    IF a = <<>> THEN <<>>
    ELSE BigAdd(BigTrim([i \in 1..Len(a) |-> (a[i] * k) % LimbBase]),
                BigTrim(<<0>> \o [i \in 1..Len(a) |-> (a[i] * k) \div LimbBase]))

RECURSIVE BigMulFrom(_, _, _)
BigMulFrom(a, b, i) ==
    IF i > Len(b) THEN <<>>
    ELSE BigAdd(BigMulSmall(a, b[i]), <<0>> \o BigMulFrom(a, b, i + 1))

BigMul(a, b) == IF a = <<>> \/ b = <<>> THEN <<>> ELSE BigTrim(BigMulFrom(a, b, 1))

Reverse(s) == [i \in 1..Len(s) |-> s[Len(s) + 1 - i]]

RECURSIVE BigDivRange(_, _, _, _, _)
\* long division of the digits hi, .., lo of a by k, rem being what the
\* digits above have left: the quotient digits from the highest on, and
\* the remainder
BigDivRange(a, k, lo, hi, rem) ==
    IF lo = hi
    THEN [q |-> <<(rem * LimbBase + a[hi]) \div k>>, r |-> (rem * LimbBase + a[hi]) % k]
    ELSE LET mid == (lo + hi) \div 2
             upper == BigDivRange(a, k, mid + 1, hi, rem)
             lower == BigDivRange(a, k, lo, mid, upper.r)
         IN  [q |-> upper.q \o lower.q, r |-> lower.r]

\* a divided by k, for 0 < k <= 2^15: quotient and remainder
BigDivSmall(a, k) ==
    IF a = <<>> THEN [q |-> <<>>, r |-> 0]
    ELSE [q |-> BigTrim(Reverse(BigDivRange(a, k, 1, Len(a), 0).q)),
          r |-> BigDivRange(a, k, 1, Len(a), 0).r]

RECURSIVE Pow2(_)
\* 2^n as a number, for n < 31
Pow2(n) == IF n = 0 THEN 1 ELSE 2 * Pow2(n - 1)

Zeros(n) == [i \in 1..n |-> 0]

\* a * 2^n
BigShl(a, n) ==
    IF a = <<>> THEN <<>>
    ELSE Zeros(n \div LimbBits) \o BigMulSmall(a, Pow2(n % LimbBits))

\* a divided by 2^n, rounded down: digit i takes the high bits of digit
\* i + n/15 and the low bits of the digit above it
BigShr(a, n) ==
    IF a = <<>> THEN <<>> ELSE
    LET skip == n \div LimbBits
        low == Pow2(n % LimbBits)
        high == Pow2(LimbBits - (n % LimbBits))
    IN  BigTrim([i \in 1..(Len(a) - skip) |->
                    (BigLimb(a, i + skip) \div low) + (BigLimb(a, i + skip + 1) % low) * high])

RECURSIVE BitLen(_)
BitLen(n) == IF n = 0 THEN 0 ELSE 1 + BitLen(n \div 2)

BigBitLen(a) == IF a = <<>> THEN 0 ELSE LimbBits * (Len(a) - 1) + BitLen(a[Len(a)])

BigIsOdd(a) == a # <<>> /\ a[1] % 2 = 1

\* a / 2^n rounded to the nearest natural number, a tie going to the even
\* one; above says that a stands for a value a little above a
BigShrNearest(a, n, above) ==
    IF n <= 0 \/ a = <<>> THEN a
    ELSE LET q == BigShr(a, n)
             twice == BigShl(BigSub(a, BigShl(q, n)), 1)
             c == BigCmp(twice, BigShl(<<1>>, n))
         IN  IF c > 0 \/ (c = 0 /\ (above \/ BigIsOdd(q))) THEN BigAdd(q, <<1>>) ELSE q

------------------------------------------------------------------------
(* Python's float: an IEEE 754 double.  A finite double is (-1)^neg * m * *)
(* 2^e with m odd (or m = 0, e = 0), so that equal doubles are equal      *)
(* values; every operation rounds its exact result to 53 bits, ties to    *)
(* even.                                                                  *)

DNaN == [k |-> "nan"]
DInf(neg) == [k |-> "inf", neg |-> neg]
DFin(neg, m, e) == [k |-> "fin", neg |-> neg, m |-> m, e |-> e]
DZero(neg) == DFin(neg, <<>>, 0)

RECURSIVE LowZeros(_)
\* the number of zero bits below the lowest one bit of a digit that is not zero
LowZeros(d) == IF d % 2 = 1 THEN 0 ELSE 1 + LowZeros(d \div 2)

\* m * 2^e with m made odd
DCanon(neg, m, e) ==
    IF m = <<>> THEN DZero(neg)
    ELSE LET first == CHOOSE i \in 1..Len(m) : m[i] # 0 /\ \A j \in 1..(i - 1) : m[j] = 0
             low == LowZeros(m[first])
         IN  DFin(neg, BigShr(SubSeq(m, first, Len(m)), low), e + LimbBits * (first - 1) + low)

\* the double nearest to m * 2^e (a little more when above); the least
\* exponent is -1074, the values from 2^1024 on are infinite
DRound(neg, m, e, above) ==
    LET byLength == BigBitLen(m) - 53
        byExponent == (-1074) - e
        s == IF byLength > byExponent THEN byLength ELSE byExponent
        q == BigShrNearest(m, s, above)
        e2 == IF s > 0 THEN e + s ELSE e
    IN  IF m = <<>> THEN DZero(neg)
        ELSE IF BigBitLen(q) + e2 > 1024 THEN DInf(neg)
        ELSE DCanon(neg, q, e2)

\* float(n) of an integer
DFromInt(n) == DRound(n < 0, BigOf(IF n < 0 THEN -n ELSE n), 0, FALSE)

\* the double nearest to p / q, for 0 < q <= 2^15
DFromRatio(p, q) ==
    LET d == BigDivSmall(BigShl(BigOf(IF p < 0 THEN -p ELSE p), 75), q)
    IN  IF p % q = 0 THEN DFromInt(p \div q)
        ELSE DRound(p < 0, d.q, -75, d.r # 0)

\* the position of the top bit of a finite float that is not zero
DTop(a) == BigBitLen(a.m) + a.e

DAdd(a, b) ==
    IF a.k = "nan" \/ b.k = "nan" THEN DNaN
    ELSE IF a.k = "inf" THEN (IF b.k = "inf" /\ b.neg # a.neg THEN DNaN ELSE a)
    ELSE IF b.k = "inf" THEN b
    ELSE IF a.m = <<>> /\ b.m = <<>> THEN DZero(a.neg /\ b.neg)
    ELSE IF a.m = <<>> THEN b
    ELSE IF b.m = <<>> THEN a
    ELSE IF DTop(a) - DTop(b) > 64 THEN a
    ELSE IF DTop(b) - DTop(a) > 64 THEN b
    ELSE LET e == IF a.e < b.e THEN a.e ELSE b.e
             am == BigShl(a.m, a.e - e)
             bm == BigShl(b.m, b.e - e)
             c == BigCmp(am, bm)
         IN  IF a.neg = b.neg THEN DRound(a.neg, BigAdd(am, bm), e, FALSE)
             ELSE IF c = 0 THEN DZero(FALSE)
             ELSE IF c > 0 THEN DRound(a.neg, BigSub(am, bm), e, FALSE)
             ELSE DRound(b.neg, BigSub(bm, am), e, FALSE)

DMul(a, b) ==
    IF a.k = "nan" \/ b.k = "nan" THEN DNaN
    ELSE IF a.k = "inf" \/ b.k = "inf"
         THEN (IF (a.k = "fin" /\ a.m = <<>>) \/ (b.k = "fin" /\ b.m = <<>>) THEN DNaN
               ELSE DInf(a.neg # b.neg))
    ELSE DRound(a.neg # b.neg, BigMul(a.m, b.m), a.e + b.e, FALSE)

\* bool(x): every float but 0.0 and -0.0 is true
DTruthy(a) == a.k # "fin" \/ a.m # <<>>

\* round(x, 2) of a finite float, in hundredths: the hundredth nearest to
\* the exact value of x, a tie going to the even one
DRoundHundredths(a) ==
    LET n == BigMulSmall(a.m, 100)
        h == BigToInt(IF a.e >= 0 THEN BigShl(n, a.e) ELSE BigShrNearest(n, -a.e, FALSE))
    IN  IF a.neg THEN -h ELSE h

------------------------------------------------------------------------
(* 4.1 Time-interval model                                                *)

MeetingTime(d, b, e) == [day |-> d, begin_time |-> b, end_time |-> e]

\* a plausible slip: adjacency treated as a conflict (< and > for <= and >=)
overlaps_with_closed(self, other) ==
    IF self.day # other.day
    THEN FALSE
    ELSE ~(self.end_time < other.begin_time \/ self.begin_time > other.end_time)

overlaps_with(self, other) ==
    IF self.day # other.day
    THEN FALSE
    ELSE ~(self.end_time <= other.begin_time \/ self.begin_time >= other.end_time)

\* what a Section reads through its reference to the owning Course
CourseRef(code, title) == [subject_course |-> code, title |-> title]

Section(course, crn, mts) == [meeting_times |-> mts, course |-> course, crn |-> crn]

conflicts_with(self, other) ==
    \E i \in 1..Len(self.meeting_times), j \in 1..Len(other.meeting_times) :
        overlaps_with(self.meeting_times[i], other.meeting_times[j])

Course(code, title, credits, secs) ==
    [subject_course |-> code, title |-> title, credits |-> credits, sections |-> secs]

------------------------------------------------------------------------
(* 4.2 Catalog normalizer.  A raw record is a decoded JSON object: a      *)
(* value that may be null, text or a number carries a tag t.              *)

MEETING_KEYS == <<"monday", "tuesday", "wednesday", "thursday", "friday">>
DAY_NAMES_LONG == <<"Monday", "Tuesday", "Wednesday", "Thursday", "Friday">>

\* None: a JSON null, or what dict.get gives for a missing key
NoneVal == [t |-> "none"]
\* a string, as its sequence of characters
StrVal(chars) == [t |-> "str", s |-> chars]
\* an integer
IntVal(n) == [t |-> "int", v |-> n]
\* a JSON number written with one decimal, by its count of tenths
NumVal(v) == [t |-> "num", v |-> v]
\* a JSON true or false
BoolVal(b) == [t |-> "bool", b |-> b]

\* bool(value), which "x or y", "if x" and "not x" ask for: None, zero,
\* False and every empty text, mapping or collection are false
Truthy(value) ==
    CASE value.t = "none" -> FALSE
      [] value.t = "bool" -> value.b
      [] value.t = "map" -> value.m # <<>>
      [] value.t = "str" -> value.s # <<>>
      [] value.t = "text" -> value.s # ""
      [] value.t = "set" -> value.s # {}
      [] value.t = "hooks" -> value.h # <<>>
      [] value.t = "num" -> value.v # 0
      [] value.t = "int" -> value.v # 0
      [] OTHER -> TRUE

Digits == <<"0", "1", "2", "3", "4", "5", "6", "7", "8", "9">>
IsDigit(c) == c \in Range(Digits)
DigitOf(c) == (CHOOSE d \in 1..10 : Digits[d] = c) - 1

RECURSIVE DigitsValue(_)
DigitsValue(chars) ==
    IF chars = <<>> THEN 0
    ELSE 10 * DigitsValue(SubSeq(chars, 1, Len(chars) - 1)) + DigitOf(chars[Len(chars)])

\* The characters str.isspace() holds for, among the characters up to
\* 0xff that a text is written with here: tab, line feed, vertical tab
\* (0x0b), form feed, carriage return, the separators 0x1c to 0x1f, the
\* blank, next line (0x85) and the no-break space (0xa0).
Separators == {"", "", "", ""}
Whitespace == {" ", "\t", "\n", "", "\f", "\r", "", " "} \cup Separators

\* what int() and float() skip around a number: the white space but for the
\* separators 0x1c to 0x1f, which make them raise ValueError
NumberBlanks == Whitespace \ Separators

RECURSIVE LStrip(_, _)
LStrip(chars, blanks) ==
    IF chars # <<>> /\ Head(chars) \in blanks THEN LStrip(Tail(chars), blanks) ELSE chars

RECURSIVE RStrip(_, _)
RStrip(chars, blanks) ==
    IF chars # <<>> /\ chars[Len(chars)] \in blanks
    THEN RStrip(SubSeq(chars, 1, Len(chars) - 1), blanks)
    ELSE chars

StripOf(chars, blanks) == RStrip(LStrip(chars, blanks), blanks)

\* text.strip()
Strip(chars) == StripOf(chars, Whitespace)

IsSign(c) == c \in {"+", "-"}
Unsigned(chars) == IF chars # <<>> /\ IsSign(chars[1]) THEN Tail(chars) ELSE chars
IsNegative(chars) == chars # <<>> /\ chars[1] = "-"

\* digits, with single underscores allowed between two digits
DigitGroups(chars) ==
    /\ chars # <<>>
    /\ \A i \in 1..Len(chars) :
          \/ IsDigit(chars[i])
          \/ /\ chars[i] = "_" /\ 1 < i /\ i < Len(chars)
             /\ IsDigit(chars[i - 1]) /\ IsDigit(chars[i + 1])

\* int(text): blanks around, an optional sign, then digits; ok = FALSE
\* stands for ValueError
PyInt(chars) ==
    LET body == StripOf(chars, NumberBlanks)
        digits == Unsigned(body)
    IN  IF DigitGroups(digits)
        THEN [ok |-> TRUE,
              val |-> (IF IsNegative(body) THEN -1 ELSE 1) * DigitsValue(SelectSeq(digits, IsDigit))]
        ELSE [ok |-> FALSE, val |-> 0]

\* int(hhmm[:2]) * 60 + int(hhmm[2:]); ok = FALSE stands for ValueError
hhmm_to_minutes(chars) ==
    LET hh == PyInt(SubSeq(chars, 1, IF Len(chars) < 2 THEN Len(chars) ELSE 2))
        mm == PyInt(SubSeq(chars, 3, Len(chars)))
    IN  IF hh.ok /\ mm.ok
        THEN [ok |-> TRUE, val |-> hh.val * 60 + mm.val]
        ELSE [ok |-> FALSE, val |-> 0]

RECURSIVE DecimalChars(_)
\* the decimal digits of a natural number
DecimalChars(n) ==
    IF n < 10 THEN <<Digits[n + 1]>>
    ELSE DecimalChars(n \div 10) \o <<Digits[(n % 10) + 1]>>

\* str(n) of an integer
PyStrInt(n) == IF n < 0 THEN <<"-">> \o DecimalChars(-n) ELSE DecimalChars(n)

\* f"{n:02d}": the sign and the digits, filled with zeros up to two characters
Format02d(n) == IF 0 <= n /\ n < 10 THEN <<"0">> \o DecimalChars(n) ELSE PyStrInt(n)

\* f"{minutes // 60:02d}{minutes % 60:02d}": // rounds down, % is not negative
minutes_to_hhmm(minutes) == Format02d(minutes \div 60) \o Format02d(minutes % 60)

\* float(text) reads letters in either case
Lower(c) ==
    CASE c = "A" -> "a" [] c = "E" -> "e" [] c = "F" -> "f" [] c = "I" -> "i"
      [] c = "N" -> "n" [] c = "T" -> "t" [] c = "Y" -> "y" [] OTHER -> c

\* the first place of chars that holds c, 0 when there is none
FirstIndex(chars, c) ==
    IF \E i \in 1..Len(chars) : chars[i] = c
    THEN CHOOSE i \in 1..Len(chars) : chars[i] = c /\ \A j \in 1..(i - 1) : chars[j] # c
    ELSE 0

RECURSIVE DropZeros(_)
DropZeros(chars) == IF chars # <<>> /\ Head(chars) = "0" THEN DropZeros(Tail(chars)) ELSE chars

RECURSIVE Pow5(_)
\* 5^n as a number, for n <= 6
Pow5(n) == IF n = 0 THEN 1 ELSE 5 * Pow5(n - 1)

RECURSIVE BigTimesPow5(_, _)
\* a * 5^n: six factors at a time, a longer product in two halves
BigTimesPow5(a, n) ==
    IF a = <<>> THEN <<>>
    ELSE IF n <= 6 THEN BigMulSmall(a, Pow5(n))
    ELSE BigTimesPow5(BigTimesPow5(a, n \div 2), n - (n \div 2))

RECURSIVE BigDivPow5(_, _)
\* a divided by 5^n, rounded down; r tells whether something was left over
BigDivPow5(a, n) ==
    IF a = <<>> THEN [q |-> <<>>, r |-> FALSE]
    ELSE IF n <= 6
    THEN [q |-> BigDivSmall(a, Pow5(n)).q, r |-> BigDivSmall(a, Pow5(n)).r # 0]
    ELSE LET first == BigDivPow5(a, n \div 2)
             rest == BigDivPow5(first.q, n - (n \div 2))
         IN  IF first.q = <<>> THEN first
             ELSE [q |-> rest.q, r |-> first.r \/ rest.r]

RECURSIVE BigOfDigits(_)
\* the number written by the digits: up to four digits at once, a longer
\* text as its left part times a power of ten plus its right part
BigOfDigits(chars) ==
    IF Len(chars) <= 4 THEN BigOf(DigitsValue(chars))
    ELSE LET right == Len(chars) \div 2
         IN  BigAdd(BigShl(BigTimesPow5(BigOfDigits(SubSeq(chars, 1, Len(chars) - right)), right),
                           right),
                    BigOfDigits(SubSeq(chars, Len(chars) - right + 1, Len(chars))))

\* the double nearest to digits * 10^exp10, with 10 = 5 * 2: the power of
\* 5 goes into the digits, the power of 2 into the exponent
DFromDecimal(neg, digits, exp10) ==
    LET sig == DropZeros(digits)
        s == 65 + ((-exp10) * 7) \div 3
        d == BigDivPow5(BigShl(BigOfDigits(sig), s), -exp10)
    IN  IF sig = <<>> THEN DZero(neg)
        ELSE IF Len(sig) + exp10 > 310 THEN DInf(neg)
        ELSE IF Len(sig) + exp10 < -330 THEN DZero(neg)
        ELSE IF exp10 >= 0 THEN DRound(neg, BigTimesPow5(BigOfDigits(sig), exp10), exp10, FALSE)
        ELSE DRound(neg, d.q, exp10 - s, d.r)

\* the exponent of a float text; an exponent of more than six digits is
\* as good as 999999
ExponentValue(chars) ==
    LET digits == DropZeros(SelectSeq(Unsigned(chars), IsDigit))
        size == IF Len(digits) > 6 THEN 999999 ELSE DigitsValue(digits)
    IN  IF IsNegative(chars) THEN -size ELSE size

\* float(text): blanks around, an optional sign, then inf, infinity, nan or
\* a decimal number with an optional exponent; ok = FALSE stands for
\* ValueError
PyFloat(chars) ==
    LET body == StripOf(chars, NumberBlanks)
        neg == IsNegative(body)
        word == [i \in 1..Len(Unsigned(body)) |-> Lower(Unsigned(body)[i])]
        ePos == FirstIndex(word, "e")
        mant == IF ePos = 0 THEN word ELSE SubSeq(word, 1, ePos - 1)
        expo == IF ePos = 0 THEN <<>> ELSE SubSeq(word, ePos + 1, Len(word))
        dot == FirstIndex(mant, ".")
        ip == IF dot = 0 THEN mant ELSE SubSeq(mant, 1, dot - 1)
        fp == IF dot = 0 THEN <<>> ELSE SubSeq(mant, dot + 1, Len(mant))
        fraction == SelectSeq(fp, IsDigit)
    IN  IF word \in {<<"i", "n", "f">>, <<"i", "n", "f", "i", "n", "i", "t", "y">>}
        THEN [ok |-> TRUE, val |-> DInf(neg)]
        ELSE IF word = <<"n", "a", "n">> THEN [ok |-> TRUE, val |-> DNaN]
        ELSE IF /\ ip = <<>> \/ DigitGroups(ip)
                /\ fp = <<>> \/ DigitGroups(fp)
                /\ ip # <<>> \/ fp # <<>>
                /\ ePos = 0 \/ DigitGroups(Unsigned(expo))
        THEN [ok |-> TRUE,
              val |-> DFromDecimal(neg, SelectSeq(ip, IsDigit) \o fraction,
                                   (IF ePos = 0 THEN 0 ELSE ExponentValue(expo)) - Len(fraction))]
        ELSE [ok |-> FALSE, val |-> DNaN]

\* the value of a conversion, or the default when it raised ValueError
ValueOr(parsed, default) == IF parsed.ok THEN parsed.val ELSE default

\* try: return float(value)  except (TypeError, ValueError): return default
\* A number converts exactly when it is an int and to the nearest double
\* when it is given in tenths, True is 1.0 and False 0.0; None raises
\* TypeError.
_safe_float(value, default) ==
    CASE value.t \in {"num", "int", "bool"} ->
            DFromRatio(IF value.t = "bool" THEN (IF value.b THEN 1 ELSE 0) ELSE value.v,
                       IF value.t = "num" THEN 10 ELSE 1)
      [] value.t = "str" -> ValueOr(PyFloat(value.s), default)
      [] OTHER -> default

\* One element of meetingsFaculty: null, or an object whose meetingTime is
\* missing, null or an object.
NullBlock == [t |-> "null"]
MissingMT == [t |-> "missing"]
NullMT == [t |-> "null"]
EmptyDict == [t |-> "empty"]
Block(mt) == [t |-> "dict", meetingTime |-> mt]
MeetingDict(begin, end, flags, credit) ==
    [t |-> "dict", beginTime |-> begin, endTime |-> end, creditHourSession |-> credit,
     monday |-> "monday" \in flags, tuesday |-> "tuesday" \in flags,
     wednesday |-> "wednesday" \in flags, thursday |-> "thursday" \in flags,
     friday |-> "friday" \in flags]

\* d.get(key) of a meetingTime object; the empty object has no key
MtGet(mt, key) == IF mt.t = "dict" THEN mt[key] ELSE NoneVal

\* not value
Falsy(value) == ~Truthy(value)

\* (faculty_block or {}).get("meetingTime") or {}
BlockMeetingOrEmpty(block) ==
    IF block.t = "null" THEN EmptyDict
    ELSE IF block.meetingTime.t = "dict" THEN block.meetingTime
    ELSE EmptyDict

\* a conversion that raised no TypeError
Converted(parsed) == [raised |-> FALSE, ok |-> parsed.ok, val |-> parsed.val]

\* hhmm_to_minutes(value) of a field value: a text is sliced and parsed;
\* a number or a boolean cannot be sliced, and raised = TRUE stands for
\* its TypeError
TimeMinutes(value) ==
    IF value.t = "str" THEN Converted(hhmm_to_minutes(value.s))
    ELSE [raised |-> TRUE, ok |-> FALSE, val |-> 0]

\* lines 136-140: one meeting time for each day whose flag is set
DayTimes(mt, begin_minutes, end_minutes) ==
    LET flagged == SelectSeq(<<1, 2, 3, 4, 5>>, LAMBDA k : mt[MEETING_KEYS[k]])
    IN  [i \in 1..Len(flagged) |-> MeetingTime(flagged[i] - 1, begin_minutes, end_minutes)]

\* Lines 126-140 for the conversions b of the begin and e of the end.  The
\* end is converted only after the begin was: a ValueError of the begin
\* passes the block over, a TypeError of either leaves the function (line
\* 129 catches ValueError alone).
ConvertedTimes(mt, b, e) ==
    IF b.raised THEN [raised |-> TRUE, value |-> <<>>]
    ELSE IF ~b.ok THEN [raised |-> FALSE, value |-> <<>>]
    ELSE IF e.raised THEN [raised |-> TRUE, value |-> <<>>]
    ELSE IF ~e.ok \/ b.val >= e.val THEN [raised |-> FALSE, value |-> <<>>]
    ELSE [raised |-> FALSE, value |-> DayTimes(mt, b.val, e.val)]

\* lines 121-140 for the meetingTime object of a block
MeetingDictTimes(mt) ==
    IF Falsy(MtGet(mt, "beginTime")) \/ Falsy(MtGet(mt, "endTime"))
    THEN [raised |-> FALSE, value |-> <<>>]
    ELSE ConvertedTimes(mt, TimeMinutes(MtGet(mt, "beginTime")), TimeMinutes(MtGet(mt, "endTime")))

\* the meeting times one block contributes (lines 120-140)
BlockMeetingTimes(block) == MeetingDictTimes(BlockMeetingOrEmpty(block))

\* the blocks' meeting times in one list, unless a block raised
Gathered(blocks) ==
    IF \E i \in 1..Len(blocks) : blocks[i].raised
    THEN [raised |-> TRUE, value |-> <<>>]
    ELSE [raised |-> FALSE, value |-> Concat([i \in 1..Len(blocks) |-> blocks[i].value])]

\* raised = TRUE stands for the TypeError of a block; value is the list
\* that is returned otherwise
extract_meeting_times(section) ==
    Gathered([i \in 1..Len(section.meetingsFaculty) |->
                BlockMeetingTimes(section.meetingsFaculty[i])])

\* (meeting or {}).get("meetingTime", {}): None when the key holds null
BlockMeetingOrDefault(block) ==
    IF block.t = "null" THEN EmptyDict
    ELSE IF block.meetingTime.t = "missing" THEN EmptyDict
    ELSE block.meetingTime

RECURSIVE DSum(_)
\* sum(floats): the additions from left to right, starting from 0
DSum(q) == IF q = <<>> THEN DZero(FALSE) ELSE DAdd(DSum(SubSeq(q, 1, Len(q) - 1)), q[Len(q)])

\* the text of every credit figure of a section: creditHours first, then
\* the creditHourSession of each block
CreditFigures(section) ==
    <<section.creditHours>>
    \o [i \in 1..Len(section.meetingsFaculty) |->
           MtGet(BlockMeetingOrDefault(section.meetingsFaculty[i]), "creditHourSession")]

\* lines 147-157 over the converted figures: creditHours when it is true,
\* else the sum over the blocks.  raised = TRUE stands for the
\* AttributeError of None.get, which the first block whose meetingTime is
\* null raises.
CreditsFrom(section, floats) ==
    IF DTruthy(floats[1]) THEN [raised |-> FALSE, value |-> floats[1]]
    ELSE IF \E i \in 1..Len(section.meetingsFaculty) :
                BlockMeetingOrDefault(section.meetingsFaculty[i]).t = "null"
    THEN [raised |-> TRUE, value |-> DZero(FALSE)]
    ELSE [raised |-> FALSE, value |-> DSum(Tail(floats))]

compute_section_credits(section) ==
    CreditsFrom(section, [i \in 1..Len(CreditFigures(section)) |->
                             _safe_float(CreditFigures(section)[i], DZero(FALSE))])

------------------------------------------------------------------------
(* 4.4 Combination search engine                                          *)

\* all(not sect.conflicts_with(existing) for existing in combo)
Admits(combo, sect) == \A k \in 1..Len(combo) : ~conflicts_with(sect, combo[k])

RECURSIVE ExtendBy(_, _)
\* inner loop: for combo in combos: if admitted, append combo + [sect]
ExtendBy(cs, sect) ==
    IF cs = <<>> THEN <<>>
    ELSE (IF Admits(Head(cs), sect) THEN <<Append(Head(cs), sect)>> ELSE <<>>)
         \o ExtendBy(Tail(cs), sect)

\* a plausible slip: the new section is checked against the last chosen one only
NewCombosLastOnly(sects, cs) ==
    Concat([i \in 1..Len(sects) |->
        Concat([j \in 1..Len(cs) |->
            IF cs[j] = <<>> \/ ~conflicts_with(sects[i], cs[j][Len(cs[j])])
            THEN <<Append(cs[j], sects[i])>> ELSE <<>>])])

\* a plausible slip: a section that clashes with any partial schedule is
\* dropped for all of them
NewCombosDropSection(sects, cs) ==
    Concat([i \in 1..Len(sects) |->
        IF \A j \in 1..Len(cs) : Admits(cs[j], sects[i])
        THEN [j \in 1..Len(cs) |-> Append(cs[j], sects[i])] ELSE <<>>])

RECURSIVE NewCombos(_, _)
\* outer loop: for sect in course.sections
NewCombos(sects, cs) ==
    IF sects = <<>> THEN <<>>
    ELSE ExtendBy(cs, Head(sects)) \o NewCombos(Tail(sects), cs)

RECURSIVE GenFrom(_, _)
\* the loop over self.courses with both early returns
GenFrom(cl, cs) ==
    IF cl = <<>> THEN cs
    ELSE IF Head(cl).sections = <<>> THEN <<>>
    ELSE LET nc == NewCombos(Head(cl).sections, cs)
         IN  IF nc = <<>> THEN <<>> ELSE GenFrom(Tail(cl), nc)

generate_section_combinations(cl) == GenFrom(cl, << <<>> >>)

------------------------------------------------------------------------
(* 4.5 Scoring model.  All weights are in hundredths of a score point.    *)

EARLY_CLASS_THRESHOLD == 600
LATE_CLASS_THRESHOLD == 1080
\* 0.2 per minute
EARLY_LATE_PENALTY_PER_MIN == 20
ACTIVE_DAY_IDEAL_LOW == 3
ACTIVE_DAY_IDEAL_HIGH == 4
\* 100
ACTIVE_DAY_BONUS == 10000
\* 50 per day
ACTIVE_DAY_PENALTY_PER_DAY == 5000
\* 20 per unit of standard deviation
DISTRIBUTION_WEIGHT == 2000
\* 0.05 per minute
IDLE_TIME_PENALTY == 5
\* 0.05 per minute
SPAN_PENALTY == 5

ScoringWeights ==
    [early_class_threshold |-> EARLY_CLASS_THRESHOLD,
     late_class_threshold |-> LATE_CLASS_THRESHOLD,
     early_late_penalty_per_min |-> EARLY_LATE_PENALTY_PER_MIN,
     active_day_ideal_range |-> <<ACTIVE_DAY_IDEAL_LOW, ACTIVE_DAY_IDEAL_HIGH>>,
     active_day_bonus |-> ACTIVE_DAY_BONUS,
     active_day_penalty_per_day |-> ACTIVE_DAY_PENALTY_PER_DAY,
     distribution_weight |-> DISTRIBUTION_WEIGHT,
     idle_time_penalty |-> IDLE_TIME_PENALTY,
     span_penalty |-> SPAN_PENALTY]

\* float("-inf"): below every score a schedule can get
NegInf == -2000000000

RECURSIVE BigSqrtDigit(_, _, _, _)
\* the greatest d in lo..hi with (base + d)^2 <= target
BigSqrtDigit(base, target, lo, hi) ==
    IF lo >= hi THEN lo
    ELSE LET mid == (lo + hi + 1) \div 2
             cand == BigAdd(base, BigOf(mid))
         IN  IF BigCmp(BigMul(cand, cand), target) <= 0
             THEN BigSqrtDigit(base, target, mid, hi)
             ELSE BigSqrtDigit(base, target, lo, mid - 1)

RECURSIVE BigSqrtAt(_, _)
\* the square root, rounded down, of v without its lowest 2 * s digits: the
\* root of v without two digits more, and one digit after it
BigSqrtAt(v, s) ==
    IF Len(v) <= 2 * s THEN <<>>
    ELSE LET upper == BigSqrtAt(v, s + 1)
             base == IF upper = <<>> THEN <<>> ELSE <<0>> \o upper
         IN  BigAdd(base, BigOf(BigSqrtDigit(base, SubSeq(v, 2 * s + 1, Len(v)), 0, LimbBase - 1)))

\* the square root of a natural number, rounded down
BigSqrt(v) == BigSqrtAt(v, 0)

\* every meeting time of the schedule, in section order
AllMeetings(schedule) == Concat([i \in 1..Len(schedule) |-> schedule[i].meeting_times])

\* days[d]: the (begin, end) windows of day d
DayWindows(schedule, d) == SelectSeq(AllMeetings(schedule), LAMBDA mt : mt.day = d)

\* a plausible slip: only the late classes are penalized
TimeOfDayDeltaLateOnly(mt, weights) ==
    IF mt.end_time > weights.late_class_threshold
    THEN -((mt.end_time - weights.late_class_threshold) * weights.early_late_penalty_per_min)
    ELSE 0

\* the early/late penalty of one meeting time (a negative amount)
TimeOfDayDelta(mt, weights) ==
      (IF mt.begin_time < weights.early_class_threshold
       THEN -((weights.early_class_threshold - mt.begin_time) * weights.early_late_penalty_per_min)
       ELSE 0)
    + (IF mt.end_time > weights.late_class_threshold
       THEN -((mt.end_time - weights.late_class_threshold) * weights.early_late_penalty_per_min)
       ELSE 0)

\* The score before rounding is (num - y) / den hundredths, where num and den
\* are integers and y is the real number den * distribution_weight * stdev;
\* ycl is the least integer >= y and yex tells whether y is that integer.
\* den is twice the number of active days, so that mean(spans) * span_penalty
\* and the rounding offset 1/2 are exact.  raised tells that a hook has ended
\* the call with an exception.
BaseScore(schedule, weights) ==
    LET mts == AllMeetings(schedule)
        active == {d \in 0..4 : DayWindows(schedule, d) # <<>>}
        n == Cardinality(active)
        den == IF n = 0 THEN 2 ELSE 2 * n
        tod == SumSeq([i \in 1..Len(mts) |-> TimeOfDayDelta(mts[i], weights)])
        shape == IF weights.active_day_ideal_range[1] <= n /\ n <= weights.active_day_ideal_range[2]
                 THEN weights.active_day_bonus
                 ELSE -(Abs(n - weights.active_day_ideal_range[2]) * weights.active_day_penalty_per_day)
        cnt(d) == Len(DayWindows(schedule, d))
        sumx == SumSeq([d \in 1..5 |-> cnt(d - 1)])
        sumxx == SumSeq([d \in 1..5 |-> cnt(d - 1) * cnt(d - 1)])
        \* stdev(day_counts)^2 = a / (n * (n - 1))
        a == n * sumxx - sumx * sumx
        \* y^2 = (2 n w)^2 * a / (n (n-1)) = 4 w^2 * n * a / (n - 1)
        ysq == BigDivSmall(BigMul(BigOf(4 * weights.distribution_weight * weights.distribution_weight),
                                  BigOf(n * a)),
                           n - 1)
        yfl == BigSqrt(ysq.q)
        yex == IF n > 1 THEN ysq.r = 0 /\ BigMul(yfl, yfl) = ysq.q ELSE TRUE
        ycl == IF n > 1 THEN BigToInt(yfl) + (IF yex THEN 0 ELSE 1) ELSE 0
        span(d) == LET w == DayWindows(schedule, d)
                   IN  SetMax({w[i].end_time : i \in 1..Len(w)}) - SetMin({w[i].begin_time : i \in 1..Len(w)})
        class_time(d) == LET w == DayWindows(schedule, d)
                         IN  SumSeq([i \in 1..Len(w) |-> w[i].end_time - w[i].begin_time])
        idle == SumSeq([d \in 1..5 |-> IF (d - 1) \in active THEN span(d - 1) - class_time(d - 1) ELSE 0])
        spans == SumSeq([d \in 1..5 |-> IF (d - 1) \in active THEN span(d - 1) ELSE 0])
    IN  [num |-> den * (tod + shape - idle * weights.idle_time_penalty)
                 - (IF n = 0 THEN 0 ELSE 2 * spans * weights.span_penalty),
         den |-> den,
         ycl |-> ycl,
         yex |-> yex,
         raised |-> FALSE]

\* the exact score lies midway between two hundredths
ExactTie(sc) == sc.yex /\ (sc.num - sc.ycl) % sc.den = sc.den \div 2

\* the hundredth nearest to the exact score (for a score that is no tie)
RoundScore(sc) == (sc.num + (sc.den \div 2) - sc.ycl) \div sc.den

\* An extension hook is a callable of the schedule: it returns a score
\* delta (hundredths), raises an exception derived from Exception (kind
\* "raises"), or raises one that is not, such as KeyboardInterrupt,
\* SystemExit or GeneratorExit (kind "interrupts").
Hook(kind, delta) == [kind |-> kind, delta |-> delta]

HookRaises(hook, schedule) == hook.kind = "raises"

HookInterrupts(hook, schedule) == hook.kind = "interrupts"

HookValue(hook, schedule) ==
    IF hook.kind = "per_section" THEN hook.delta * Len(schedule) ELSE hook.delta

\* try: score += penalty(schedule)  except Exception: (logged); an
\* exception that is no Exception leaves the loop and the function
ApplyPenalty(sc, hook, schedule) ==
    IF HookInterrupts(hook, schedule) THEN [sc EXCEPT !.raised = TRUE]
    ELSE IF HookRaises(hook, schedule) THEN sc
    ELSE [sc EXCEPT !.num = @ + sc.den * HookValue(hook, schedule)]

RECURSIVE ApplyPenalties(_, _, _)
\* for penalty in penalties or (): ...
ApplyPenalties(sc, penalties, schedule) ==
    IF penalties = <<>> \/ sc.raised THEN sc
    ELSE ApplyPenalties(ApplyPenalty(sc, Head(penalties), schedule), Tail(penalties), schedule)

------------------------------------------------------------------------
(* The score as the float the code computes: every += and -= and every   *)
(* product rounds to a double.  The rounding to hundredths follows the   *)
(* float, which at an exact tie is what decides the direction.           *)

\* A float operand of the code, named by the exact number it is nearest to:
\* an int converted to float (p / 1), a weight or a hook's delta given in
\* hundredths, the mean of ints (p / q), or the standard deviation
\* sqrt(p / q) that statistics.stdev rounds correctly.
FRatio(p, q) == [root |-> FALSE, p |-> p, q |-> q]
FInt(k) == FRatio(k, 1)
FHundredths(v) == FRatio(v, 100)
FSqrt(p, q) == [root |-> TRUE, p |-> p, q |-> q]

\* the double nearest to sqrt(p / q), for 0 <= p and 0 < q:
\* sqrt(p / q) = sqrt(p * q) / q
DSqrtOfRatio(p, q) ==
    LET v == BigShl(BigOf(p * q), 128)
        root == BigSqrt(v)
        d == BigDivSmall(root, q)
    IN  DRound(FALSE, d.q, -64, d.r # 0 \/ BigMul(root, root) # v)

DOperand(o) == IF o.root THEN DSqrtOfRatio(o.p, o.q) ELSE DFromRatio(o.p, o.q)

\* One update of the score: score += x * y, or score -= x * y when neg.
\* A term that is no product is the product by 1, which is exact.
Update(neg, x, y) == [neg |-> neg, x |-> x, y |-> y]

\* lines 290-296: the early and the late penalty of one meeting
TimeOfDayUpdates(mt, weights) ==
    (IF mt.begin_time < weights.early_class_threshold
     THEN <<Update(TRUE, FInt(weights.early_class_threshold - mt.begin_time),
                   FHundredths(weights.early_late_penalty_per_min))>>
     ELSE <<>>)
    \o (IF mt.end_time > weights.late_class_threshold
        THEN <<Update(TRUE, FInt(mt.end_time - weights.late_class_threshold),
                      FHundredths(weights.early_late_penalty_per_min))>>
        ELSE <<>>)

\* lines 299-308: the active days and the evenness of the day counts
ActiveDayUpdates(schedule, weights) ==
    LET cnt == [d \in 1..5 |-> Len(DayWindows(schedule, d - 1))]
        n == Cardinality({d \in 1..5 : cnt[d] > 0})
        sumx == SumSeq(cnt)
        sumxx == SumSeq([d \in 1..5 |-> cnt[d] * cnt[d]])
    IN  (IF weights.active_day_ideal_range[1] <= n /\ n <= weights.active_day_ideal_range[2]
         THEN <<Update(FALSE, FHundredths(weights.active_day_bonus), FInt(1))>>
         ELSE <<Update(TRUE, FInt(Abs(n - weights.active_day_ideal_range[2])),
                       FHundredths(weights.active_day_penalty_per_day))>>)
        \* stdev(day_counts)^2 = (n * sumxx - sumx^2) / (n * (n - 1))
        \o (IF n > 1
            THEN <<Update(TRUE, FSqrt(n * sumxx - sumx * sumx, n * (n - 1)),
                          FHundredths(weights.distribution_weight))>>
            ELSE <<>>)

\* end - start of the day's windows
DaySpan(w) ==
    SetMax({w[i].end_time : i \in 1..Len(w)}) - SetMin({w[i].begin_time : i \in 1..Len(w)})

\* lines 312-320: the idle time of one day
IdleUpdates(schedule, weights, d) ==
    LET w == DayWindows(schedule, d)
        class_time == SumSeq([i \in 1..Len(w) |-> w[i].end_time - w[i].begin_time])
    IN  IF w = <<>> THEN <<>>
        ELSE <<Update(TRUE, FInt(DaySpan(w) - class_time), FHundredths(weights.idle_time_penalty))>>

\* lines 322-323: mean(spans) is an int or the float nearest to the mean
SpanUpdates(schedule, weights) ==
    LET active == {d \in 0..4 : DayWindows(schedule, d) # <<>>}
        spans == SumSeq([d \in 1..5 |-> IF (d - 1) \in active
                                         THEN DaySpan(DayWindows(schedule, d - 1)) ELSE 0])
    IN  IF active = {} THEN <<>>
        ELSE <<Update(TRUE, FRatio(spans, Cardinality(active)), FHundredths(weights.span_penalty))>>

\* lines 325-329: the delta of a hook that returns; a hook that raises an
\* Exception adds nothing
PenaltyUpdates(hook, schedule) ==
    IF HookRaises(hook, schedule) THEN <<>>
    ELSE <<Update(FALSE, FHundredths(HookValue(hook, schedule)), FInt(1))>>

\* every update of the score, in the order the code makes them (for hooks
\* none of which interrupts)
FloatUpdates(schedule, weights, penalties) ==
    Concat([i \in 1..Len(AllMeetings(schedule)) |->
                TimeOfDayUpdates(AllMeetings(schedule)[i], weights)])
    \o ActiveDayUpdates(schedule, weights)
    \o Concat([d \in 1..5 |-> IdleUpdates(schedule, weights, d - 1)])
    \o SpanUpdates(schedule, weights)
    \o Concat([i \in 1..Len(penalties) |-> PenaltyUpdates(penalties[i], schedule)])

RECURSIVE FloatApply(_, _)
\* the updates one after the other, each product and each sum rounded to
\* a double
FloatApply(score, updates) ==
    IF updates = <<>> THEN score
    ELSE FloatApply(DAdd(score, [DMul(DOperand(Head(updates).x), DOperand(Head(updates).y))
                                    EXCEPT !.neg = (@ # Head(updates).neg)]),
                    Tail(updates))

\* the float that round(score, 2) is applied to: score = 0.0, then the updates
FloatScore(schedule, weights, penalties) ==
    FloatApply(DZero(FALSE), FloatUpdates(schedule, weights, penalties))

\* round(score, 2), in hundredths.  The float is within 1e-9 of the exact
\* score, and an exact score that is no tie is further than that from
\* every tie, so the float matters at the exact ties only.
RoundedScore(sc, schedule, weights, penalties) ==
    IF ExactTie(sc)
    THEN DRoundHundredths(FloatScore(schedule, weights, penalties))
    ELSE RoundScore(sc)

\* raised = TRUE stands for the exception of an interrupting hook
evaluate_schedule(schedule, weights, penalties) ==
    IF schedule = <<>> THEN [raised |-> FALSE, value |-> NegInf]
    ELSE LET sc == ApplyPenalties(BaseScore(schedule, weights), penalties, schedule)
         IN  IF sc.raised THEN [raised |-> TRUE, value |-> 0]
             ELSE [raised |-> FALSE, value |-> RoundedScore(sc, schedule, weights, penalties)]

------------------------------------------------------------------------
(* Options.  A keyword argument is NoneVal when the caller leaves it out. *)

DEFAULT_HASS_SUBJECT == "INQR"
DEFAULT_MAX_SCHEDULES == 25

DEFAULT_REQUIREMENTS_SPEC == <<
    [name |-> "cs_requirement", groups |-> << <<"CSCI1200">> >>],
    [name |-> "math_requirement", groups |-> << <<"MATH1020">> >>],
    [name |-> "biol_requirement",
     groups |-> << <<"BIOL1010", "BIOL1015">>, <<"BIOL1010", "BIOL1016">> >>] >>

\* a text that is compared but never parsed
TextVal(str) == [t |-> "text", s |-> str]

\* a requirements mapping: its (name, groups) items in insertion order
MapVal(items) == [t |-> "map", m |-> items]
\* a collection of subject codes
SetVal(S) == [t |-> "set", s |-> S]
\* a tuple of extension hooks
HooksVal(hooks) == [t |-> "hooks", h |-> hooks]

Requirement(name, groups) == [name |-> name, groups |-> groups]

\* a plausible slip: max_schedules or base.max_schedules
ResolveMaxByTruth(kw, base) ==
    IF Truthy(kw.max_schedules) THEN kw.max_schedules.v ELSE base.max_schedules

\* max_schedules if max_schedules is not None else base.max_schedules
ResolveMax(kw, base) ==
    IF kw.max_schedules.t # "none" THEN kw.max_schedules.v ELSE base.max_schedules

\* OptimizationOptions(): the defaults of every field
DefaultOptions ==
    [requirements_spec |-> DEFAULT_REQUIREMENTS_SPEC,
     hass_subject |-> DEFAULT_HASS_SUBJECT,
     max_schedules |-> DEFAULT_MAX_SCHEDULES,
     scoring |-> ScoringWeights,
     min_seats_available |-> 1,
     include_subjects |-> NoneVal,
     exclude_subjects |-> NoneVal,
     penalties |-> <<>>]

OptionsVal(o) == [t |-> "options", o |-> o]

\* the keyword arguments left out
NoKwargs ==
    [requirements_spec |-> NoneVal, hass_subject |-> NoneVal, max_schedules |-> NoneVal,
     scoring |-> NoneVal, min_seats_available |-> NoneVal, include_subjects |-> NoneVal,
     exclude_subjects |-> NoneVal, penalties |-> NoneVal]

_resolve_options(opt, kw) ==
  LET base == IF opt.t = "none" THEN DefaultOptions ELSE opt.o IN
    [requirements_spec |->
        IF Truthy(kw.requirements_spec) THEN kw.requirements_spec.m ELSE base.requirements_spec,
     hass_subject |-> IF Truthy(kw.hass_subject) THEN kw.hass_subject.s ELSE base.hass_subject,
     max_schedules |-> ResolveMax(kw, base),
     scoring |-> IF kw.scoring.t # "none" THEN kw.scoring.w ELSE base.scoring,
     min_seats_available |->
        IF kw.min_seats_available.t # "none" THEN kw.min_seats_available.v
        ELSE base.min_seats_available,
     include_subjects |->
        IF kw.include_subjects.t # "none" THEN kw.include_subjects ELSE base.include_subjects,
     exclude_subjects |->
        IF kw.exclude_subjects.t # "none" THEN kw.exclude_subjects ELSE base.exclude_subjects,
     penalties |-> IF kw.penalties.t # "none" THEN kw.penalties.h ELSE base.penalties]

------------------------------------------------------------------------
(* optimize_courses: normalization of one record                          *)

\* every course code of the requirements spec (the keys of courses_dict)
SpecCodes(spec) ==
    UNION {UNION {Range(spec[r].groups[g]) : g \in 1..Len(spec[r].groups)} : r \in 1..Len(spec)}

\* the record is left out by the seat threshold (line 384)
BelowSeats(section, o) == section.seatsAvailable < o.min_seats_available

\* the record is left out by a subject filter (lines 392-395)
FilteredOut(section, o) ==
    \/ Truthy(o.include_subjects) /\ section.subject \notin o.include_subjects.s
    \/ Truthy(o.exclude_subjects) /\ section.subject \in o.exclude_subjects.s

NewCourse(section, credits) ==
    Course(section.subjectCourse, section.courseTitle, credits, <<>>)

\* str(value): a text is itself, a number of tenths reads with its one
\* decimal, None, True and False read as their names
PyStr(value) ==
    CASE value.t = "str" -> value.s
      [] value.t = "int" -> PyStrInt(value.v)
      [] value.t = "num" -> (IF value.v < 0 THEN <<"-">> ELSE <<>>)
                            \o DecimalChars(Abs(value.v) \div 10) \o <<".">>
                            \o DecimalChars(Abs(value.v) % 10)
      [] value.t = "bool" -> (IF value.b THEN <<"T", "r", "u", "e">>
                              ELSE <<"F", "a", "l", "s", "e">>)
      [] value.t = "none" -> <<"N", "o", "n", "e">>

\* str(section.get("courseReferenceNumber", "")).strip()
SectionCrn(section) ==
    IF section.courseReferenceNumber.t = "missing" THEN <<>>
    ELSE Strip(PyStr(section.courseReferenceNumber))

\* lines 209-218 for the extracted meeting times: no section without one
WithSection(course, crn, meeting_times) ==
    [raised |-> meeting_times.raised,
     value |-> IF meeting_times.value = <<>> THEN course
               ELSE [course EXCEPT !.sections =
                       Append(@, Section(CourseRef(course.subject_course, course.title),
                                         crn, meeting_times.value))]]

\* raised = TRUE stands for the TypeError of extract_meeting_times, which
\* leaves the course as it was: a course built for this record (lines 399,
\* 406) stays in its dict without a section
add_section(course, section) ==
    WithSection(course, SectionCrn(section), extract_meeting_times(section))

\* courses_dict after add_section has run on the course of the code
Required(cd, code, added) ==
    [raised |-> added.raised, value |-> [cd EXCEPT ![code] = added.value]]

\* lines 397-402; raised tells that add_section raised, value is the dict
\* as it then stands
AddRequired(cd, section, credits) ==
    IF section.subjectCourse \in DOMAIN cd
    THEN Required(cd, section.subjectCourse,
                  add_section(IF cd[section.subjectCourse] = NoneVal
                              THEN NewCourse(section, credits)
                              ELSE cd[section.subjectCourse], section))
    ELSE [raised |-> FALSE, value |-> cd]

\* the place of the course of the code in hass_dict, 0 when it is not held
Held(hd, code) ==
    IF \E i \in 1..Len(hd) : hd[i].subject_course = code
    THEN CHOOSE i \in 1..Len(hd) : hd[i].subject_course = code
    ELSE 0

\* hass_dict after add_section has run on the course at the place, a new
\* course being appended
Elective(hd, place, added) ==
    [raised |-> added.raised,
     value |-> IF place = 0 THEN Append(hd, added.value) ELSE [hd EXCEPT ![place] = added.value]]

\* lines 404-409; the dict is the sequence of its values in insertion order
AddElective(hd, section, credits, o) ==
    IF section.subject = o.hass_subject
    THEN Elective(hd, Held(hd, section.subjectCourse),
                  add_section(IF Held(hd, section.subjectCourse) = 0
                              THEN NewCourse(section, credits)
                              ELSE hd[Held(hd, section.subjectCourse)], section))
    ELSE [raised |-> FALSE, value |-> hd]

------------------------------------------------------------------------
(* 4.3 Requirement resolver                                               *)

\* course is None or not course.sections
Unresolved(cd, code) == cd[code] = NoneVal \/ cd[code].sections = <<>>

GroupMissing(cd, group) == \E i \in 1..Len(group) : Unresolved(cd, group[i])

\* lines 415-426
ConcreteGroups(cd, groups) ==
    LET kept == SelectSeq(groups, LAMBDA group : ~GroupMissing(cd, group))
    IN  [g \in 1..Len(kept) |-> [i \in 1..Len(kept[g]) |-> cd[kept[g][i]]]]

\* dict[name] = value: a present key keeps its place
DictSet(items, name, groups) ==
    IF \E i \in 1..Len(items) : items[i].name = name
    THEN [i \in 1..Len(items) |-> IF items[i].name = name THEN Requirement(name, groups) ELSE items[i]]
    ELSE Append(items, Requirement(name, groups))

RECURSIVE NamedRequirements(_, _, _)
\* lines 413-431
NamedRequirements(spec, cd, acc) ==
    IF spec = <<>> THEN acc
    ELSE NamedRequirements(Tail(spec), cd,
            DictSet(acc, Head(spec).name, ConcreteGroups(cd, Head(spec).groups)))

HASS_KEY == "hass_electives"

\* lines 434-435
HassGroups(hd) ==
    LET offered == SelectSeq(hd, LAMBDA c : c.sections # <<>>)
    IN  [i \in 1..Len(offered) |-> <<offered[i]>>]

BuildRequirements(spec, cd, hd) ==
    DictSet(NamedRequirements(spec, cd, <<>>), HASS_KEY, HassGroups(hd))

\* lines 443-447: for group in groups: for combo in combos: combo + group
ExtendSlates(slates, groups) ==
    Concat([g \in 1..Len(groups) |-> [c \in 1..Len(slates) |-> slates[c] \o groups[g]]])

RECURSIVE SlatesFrom(_, _)
\* lines 439-447: the loop ends at the first requirement without groups
\* (line 442) and leaves the slates as the requirements before it made them
SlatesFrom(reqs, slates) ==
    IF reqs = <<>> \/ Head(reqs).groups = <<>> THEN slates
    ELSE SlatesFrom(Tail(reqs), ExtendSlates(slates, Head(reqs).groups))

------------------------------------------------------------------------
(* 4.6 Ranking and output assembly                                        *)

RECURSIVE InsertDescUnstable(_, _)
\* a plausible slip: an entry goes before the entries of its own score
InsertDescUnstable(sorted, entry) ==
    IF sorted = <<>> THEN <<entry>>
    ELSE IF Head(sorted).score > entry.score
         THEN <<Head(sorted)>> \o InsertDescUnstable(Tail(sorted), entry)
         ELSE <<entry>> \o sorted

RECURSIVE InsertDesc(_, _)
\* put entry behind every entry of a score at least as high
InsertDesc(sorted, entry) ==
    IF sorted = <<>> THEN <<entry>>
    ELSE IF Head(sorted).score >= entry.score
         THEN <<Head(sorted)>> \o InsertDesc(Tail(sorted), entry)
         ELSE <<entry>> \o sorted

RECURSIVE SortFrom(_, _)
SortFrom(entries, sorted) ==
    IF entries = <<>> THEN sorted
    ELSE SortFrom(Tail(entries), InsertDesc(sorted, Head(entries)))

\* scored.sort(key=score, reverse=True): descending and stable
SortScored(entries) == SortFrom(entries, <<>>)

\* a plausible slip: the slice is one entry too long
TopOffByOne(entries, n) == SubSeq(entries, 1, IF Len(entries) < n + 1 THEN Len(entries) ELSE n + 1)

\* scored[: max_schedules] for a positive max_schedules
Top(entries, n) == SubSeq(entries, 1, IF Len(entries) < n THEN Len(entries) ELSE n)

MeetingOut(mt) ==
    [day |-> DAY_NAMES_LONG[mt.day + 1],
     begin_time |-> minutes_to_hhmm(mt.begin_time),
     end_time |-> minutes_to_hhmm(mt.end_time)]

SectionOut(sec) ==
    [crn |-> sec.crn, subject_course |-> sec.course.subject_course, title |-> sec.course.title,
     meeting_times |-> [i \in 1..Len(sec.meeting_times) |-> MeetingOut(sec.meeting_times[i])]]

\* lines 466-487: entry i is stored under the label "Schedule i"
FormatOutput(entries) ==
    [i \in 1..Len(entries) |->
        [label |-> <<"Schedule", i>>,
         score |-> entries[i].score,
         sections |-> [k \in 1..Len(entries[i].schedule) |-> SectionOut(entries[i].schedule[k])]]]

------------------------------------------------------------------------
(* The parts of the state a specification does not use stay idle          *)

OverlapIdle ==
    /\ mt_a = MeetingTime(0, 0, 0) /\ mt_b = MeetingTime(0, 0, 0)
    /\ ov_ab = FALSE /\ ov_ba = FALSE /\ ov_pc = "idle"

GenIdle ==
    /\ courses = <<>> /\ combos = <<>> /\ course_idx = 0
    /\ gen_pc = "idle" /\ gen_result = <<>>

CreditsIdle ==
    /\ cr_section = NoneVal /\ cr_pc = "idle" /\ cr_out = NoneVal

ScoreIdle ==
    /\ sc_schedule = <<>> /\ sc_penalties = <<>> /\ sc_idx = 0
    /\ sc_score = NoneVal /\ sc_pc = "idle" /\ sc_result = 0

OptimizeFresh(p) ==
    /\ opts = NoneVal /\ pc = p /\ rec_idx = 0
    /\ courses_dict = NoneVal /\ hass_dict = <<>> /\ requirements = <<>>
    /\ course_combinations = <<>> /\ valid_schedules = <<>> /\ scored = <<>>
    /\ output = <<>> /\ outcome = "running"

OptimizeIdle ==
    /\ courses_data = <<>> /\ options = NoneVal /\ kwargs = NoKwargs
    /\ OptimizeFresh("idle")

------------------------------------------------------------------------
(* Specification SpecOverlap: overlaps_with applied to a pair, both ways  *)

OverlapTimes == {540, 570, 590, 620}
OverlapInputs == [day : 0..1, begin_time : OverlapTimes, end_time : OverlapTimes]

InitOverlap ==
    /\ mt_a \in OverlapInputs /\ mt_b \in OverlapInputs
    /\ ov_ab = FALSE /\ ov_ba = FALSE /\ ov_pc = "start"
    /\ GenIdle /\ CreditsIdle /\ ScoreIdle /\ OptimizeIdle

OverlapCall ==
    /\ ov_pc = "start"
    /\ ov_ab' = overlaps_with(mt_a, mt_b)
    /\ ov_ba' = overlaps_with(mt_b, mt_a)
    /\ ov_pc' = "done"
    /\ UNCHANGED <<mt_a, mt_b, genVars, crVars, scVars, inVars, optVars>>

NextOverlap == OverlapCall

SpecOverlap == InitOverlap /\ [][NextOverlap]_vars

------------------------------------------------------------------------
(* Specification SpecSearch: generate_section_combinations, one course of *)
(* the slate per step                                                     *)

\* the course of each place of the slate
SearchCodes == <<"CSCI1200", "MATH1020", "BIOL1010", "BIOL1015", "INQR1100">>

\* the first two timings clash, the third touches the second (10:20) and
\* is free of the first, the fourth is free of the others
SearchTimings == <<
    << MeetingTime(0, 540, 590) >>,
    << MeetingTime(0, 570, 620) >>,
    << MeetingTime(0, 620, 670), MeetingTime(1, 540, 590) >>,
    << MeetingTime(1, 600, 650) >> >>

SearchCrn == <<PyStrInt(101), PyStrInt(102), PyStrInt(103), PyStrInt(104)>>

\* the members of a set of numbers, in rising order
Ascending(S) ==
    [k \in 1..Cardinality(S) |-> CHOOSE x \in S : Cardinality({y \in S : y < x}) = k - 1]

\* the sections of a course: some of the timings
SearchCourse(code, timings) ==
    Course(code, "", 0,
           [k \in 1..Len(timings) |->
               Section(CourseRef(code, ""), SearchCrn[timings[k]], SearchTimings[timings[k]])])

SearchSectionLists ==
    {Ascending(S) : S \in {T \in SUBSET (1..Len(SearchTimings)) : Cardinality(T) <= MaxSections}}

InitSearch ==
    /\ \E tl \in SeqUpTo(SearchSectionLists, MaxSlate) :
           courses = [i \in 1..Len(tl) |-> SearchCourse(SearchCodes[i], tl[i])]
    /\ combos = <<>> /\ course_idx = 0 /\ gen_pc = "start" /\ gen_result = <<>>
    /\ OverlapIdle /\ CreditsIdle /\ ScoreIdle /\ OptimizeIdle

genOthers == <<ovVars, crVars, scVars, inVars, optVars>>

\* combos = [[]]
GenBegin ==
    /\ gen_pc = "start"
    /\ combos' = << <<>> >>
    /\ course_idx' = 1
    /\ gen_pc' = "loop"
    /\ UNCHANGED <<courses, gen_result, genOthers>>

\* if not course.sections: return []
GenNoSections ==
    /\ gen_pc = "loop" /\ course_idx <= Len(courses)
    /\ courses[course_idx].sections = <<>>
    /\ gen_result' = <<>>
    /\ gen_pc' = "done"
    /\ UNCHANGED <<courses, combos, course_idx, genOthers>>

\* one iteration of the loop that leaves partial schedules
GenCourse ==
    /\ gen_pc = "loop" /\ course_idx <= Len(courses)
    /\ courses[course_idx].sections # <<>>
    /\ LET nc == NewCombos(courses[course_idx].sections, combos)
       IN  /\ nc # <<>>
           /\ combos' = nc
    /\ course_idx' = course_idx + 1
    /\ UNCHANGED <<courses, gen_pc, gen_result, genOthers>>

\* combos = new_combos; if not combos: return []
GenDeadEnd ==
    /\ gen_pc = "loop" /\ course_idx <= Len(courses)
    /\ courses[course_idx].sections # <<>>
    /\ NewCombos(courses[course_idx].sections, combos) = <<>>
    /\ combos' = <<>>
    /\ gen_result' = <<>>
    /\ gen_pc' = "done"
    /\ UNCHANGED <<courses, course_idx, genOthers>>

\* return combos
GenReturn ==
    /\ gen_pc = "loop" /\ course_idx > Len(courses)
    /\ gen_result' = combos
    /\ gen_pc' = "done"
    /\ UNCHANGED <<courses, combos, course_idx, genOthers>>

NextSearch == GenBegin \/ GenNoSections \/ GenCourse \/ GenDeadEnd \/ GenReturn

SpecSearch == InitSearch /\ [][NextSearch]_vars

------------------------------------------------------------------------
(* Specification SpecCredits: compute_section_credits of one raw record   *)

\* number of meeting blocks of a raw record
MaxBlocks == 2

Chars0900 == <<"0", "9", "0", "0">>
Chars0930 == <<"0", "9", "3", "0">>
Chars0950 == <<"0", "9", "5", "0">>
Chars1000 == <<"1", "0", "0", "0">>
Chars1020 == <<"1", "0", "2", "0">>
Chars1050 == <<"1", "0", "5", "0">>

RawRecord(code, subject, crn, seats, credit, blocks) ==
    [subjectCourse |-> code, subject |-> subject, courseTitle |-> code,
     courseReferenceNumber |-> crn, seatsAvailable |-> seats,
     creditHours |-> credit, meetingsFaculty |-> blocks]

CreditValues ==
    {NoneVal, NumVal(0), NumVal(40), IntVal(3), StrVal(<<"3">>), StrVal(<<"1", ".", "5">>),
     StrVal(<<"3", ".", "2", "5">>), StrVal(<<" ", "4", " ">>), StrVal(<<"n", "a", "n">>),
     StrVal(<<"-", "0">>), StrVal(<<"T", "B", "A">>), StrVal(<<>>),
     \* a vertical tab is skipped, a separator is not
     StrVal(<<"", "4">>), StrVal(<<"4", "">>), BoolVal(TRUE)}

CreditBlocks ==
    {NullBlock, Block(MissingMT), Block(NullMT)}
    \cup {Block(MeetingDict(StrVal(Chars0900), StrVal(Chars0950), {"monday"}, c)) :
            c \in {NoneVal, NumVal(1), StrVal(<<"1", "e", "1">>), StrVal(<<".", "2">>),
                   StrVal(<<"T", "B", "A">>)}}

CreditInputs ==
    {RawRecord("CSCI1200", "CSCI", StrVal(PyStrInt(101)), 1, c, b) :
        c \in CreditValues, b \in SeqUpTo(CreditBlocks, MaxBlocks)}

InitCredits ==
    /\ cr_section \in CreditInputs /\ cr_pc = "start" /\ cr_out = NoneVal
    /\ OverlapIdle /\ GenIdle /\ ScoreIdle /\ OptimizeIdle

crOthers == <<ovVars, genVars, scVars, inVars, optVars>>

\* the call returns a number
CreditsReturn ==
    /\ cr_pc = "start"
    /\ ~compute_section_credits(cr_section).raised
    /\ cr_out' = compute_section_credits(cr_section)
    /\ cr_pc' = "done"
    /\ UNCHANGED <<cr_section, crOthers>>

\* the call ends in an AttributeError
CreditsRaise ==
    /\ cr_pc = "start"
    /\ compute_section_credits(cr_section).raised
    /\ cr_out' = compute_section_credits(cr_section)
    /\ cr_pc' = "done"
    /\ UNCHANGED <<cr_section, crOthers>>

NextCredits == CreditsReturn \/ CreditsRaise

SpecCredits == InitCredits /\ [][NextCredits]_vars

------------------------------------------------------------------------
(* Specification SpecScore: evaluate_schedule, one extension hook a step  *)

\* number of extension hooks handed to evaluate_schedule
MaxHooks == 3

ScoreHooks ==
    {Hook("raises", 0), Hook("interrupts", 0), Hook("const", -150), Hook("const", 25),
     Hook("per_section", -10)}

\* Mon/Wed/Fri 10:00-10:50
MonWedFriSection ==
    Section(CourseRef("CSCI1200", ""), PyStrInt(101),
            <<MeetingTime(0, 600, 650), MeetingTime(2, 600, 650), MeetingTime(4, 600, 650)>>)

\* the same section with a Tuesday 07:00-07:50 meeting added
MonWedFriTueSection ==
    Section(CourseRef("CSCI1200", ""), PyStrInt(101),
            <<MeetingTime(0, 600, 650), MeetingTime(2, 600, 650), MeetingTime(4, 600, 650),
              MeetingTime(1, 420, 470)>>)

\* Tuesday 07:00-07:50 alone
TuesdaySection == Section(CourseRef("MATH1020", ""), PyStrInt(201), <<MeetingTime(1, 420, 470)>>)

\* Tuesday 10:00-10:51: with a 50 minute day the mean span is 50.5 and the
\* score lies midway between two hundredths
TuesdayOddSection == Section(CourseRef("BIOL1010", ""), PyStrInt(401), <<MeetingTime(1, 600, 651)>>)

ScoreSections ==
    {MonWedFriSection, MonWedFriTueSection, TuesdaySection, TuesdayOddSection,
     Section(CourseRef("INQR1100", ""), PyStrInt(301),
             <<MeetingTime(0, 1020, 1130), MeetingTime(3, 540, 590)>>)}

InitScore ==
    /\ sc_schedule \in SeqUpTo(ScoreSections, 2)
    /\ sc_penalties \in SeqUpTo(ScoreHooks, MaxHooks)
    /\ sc_idx = 0 /\ sc_score = NoneVal /\ sc_pc = "start" /\ sc_result = 0
    /\ OverlapIdle /\ GenIdle /\ CreditsIdle /\ OptimizeIdle

scOthers == <<ovVars, genVars, crVars, inVars, optVars>>

\* if not schedule: return float("-inf")
ScoreEmpty ==
    /\ sc_pc = "start" /\ sc_schedule = <<>>
    /\ sc_result' = NegInf
    /\ sc_pc' = "done"
    /\ UNCHANGED <<sc_schedule, sc_penalties, sc_idx, sc_score, scOthers>>

\* lines 286-323: the score before the hooks
ScoreBase ==
    /\ sc_pc = "start" /\ sc_schedule # <<>>
    /\ sc_score' = BaseScore(sc_schedule, ScoringWeights)
    /\ sc_idx' = 1
    /\ sc_pc' = "hooks"
    /\ UNCHANGED <<sc_schedule, sc_penalties, sc_result, scOthers>>

\* score += penalty(schedule), the hook returns
ScoreHookReturns ==
    /\ sc_pc = "hooks" /\ sc_idx <= Len(sc_penalties)
    /\ ~HookRaises(sc_penalties[sc_idx], sc_schedule)
    /\ ~HookInterrupts(sc_penalties[sc_idx], sc_schedule)
    /\ sc_score' = ApplyPenalty(sc_score, sc_penalties[sc_idx], sc_schedule)
    /\ sc_pc' = IF sc_score'.raised THEN "raised" ELSE "hooks"
    /\ sc_idx' = sc_idx + 1
    /\ UNCHANGED <<sc_schedule, sc_penalties, sc_result, scOthers>>

\* score += penalty(schedule), the hook raises an Exception
ScoreHookRaises ==
    /\ sc_pc = "hooks" /\ sc_idx <= Len(sc_penalties)
    /\ HookRaises(sc_penalties[sc_idx], sc_schedule)
    /\ sc_score' = ApplyPenalty(sc_score, sc_penalties[sc_idx], sc_schedule)
    /\ sc_pc' = IF sc_score'.raised THEN "raised" ELSE "hooks"
    /\ sc_idx' = sc_idx + 1
    /\ UNCHANGED <<sc_schedule, sc_penalties, sc_result, scOthers>>

\* score += penalty(schedule), the hook raises what except Exception lets
\* through: the call ends with that exception
ScoreHookInterrupts ==
    /\ sc_pc = "hooks" /\ sc_idx <= Len(sc_penalties)
    /\ HookInterrupts(sc_penalties[sc_idx], sc_schedule)
    /\ sc_score' = ApplyPenalty(sc_score, sc_penalties[sc_idx], sc_schedule)
    /\ sc_pc' = IF sc_score'.raised THEN "raised" ELSE "hooks"
    /\ sc_idx' = sc_idx + 1
    /\ UNCHANGED <<sc_schedule, sc_penalties, sc_result, scOthers>>

\* return round(score, 2)
ScoreReturn ==
    /\ sc_pc = "hooks" /\ sc_idx > Len(sc_penalties)
    /\ sc_result' = RoundedScore(sc_score, sc_schedule, ScoringWeights, sc_penalties)
    /\ sc_pc' = "done"
    /\ UNCHANGED <<sc_schedule, sc_penalties, sc_idx, sc_score, scOthers>>

NextScore ==
    \/ ScoreEmpty \/ ScoreBase
    \/ ScoreHookReturns \/ ScoreHookRaises \/ ScoreHookInterrupts
    \/ ScoreReturn

SpecScore == InitScore /\ [][NextScore]_vars

------------------------------------------------------------------------
(* Specification Spec: one call of optimize_courses                       *)

\* number of raw records of the catalog handed to optimize_courses
MaxRecords == 3

TimedBlock(begin, end, flags) ==
    Block(MeetingDict(StrVal(begin), StrVal(end), flags, NumVal(10)))

\* the raw records a catalog is drawn from
Catalog ==
    {RawRecord("CSCI1200", "CSCI", StrVal(PyStrInt(101)), 5, NumVal(40), <<TimedBlock(Chars0900, Chars0950, {"monday"})>>),
     RawRecord("CSCI1200", "CSCI", IntVal(102), 5, NumVal(40), <<TimedBlock(Chars0900, Chars0950, {"tuesday"})>>),
     RawRecord("MATH1020", "MATH", StrVal(<<" ", "">> \o PyStrInt(201) \o <<"">>), 5, NumVal(40), <<TimedBlock(Chars1000, Chars1050, {"wednesday"})>>),
     \* a block of no duration: the record yields no meeting time
     RawRecord("MATH1020", "MATH", StrVal(PyStrInt(202)), 5, NumVal(40), <<TimedBlock(Chars1000, Chars1000, {"monday"})>>),
     RawRecord("INQR1100", "INQR", StrVal(PyStrInt(301)), 5, NumVal(40), <<TimedBlock(Chars0930, Chars1020, {"monday"})>>),
     RawRecord("INQR1200", "INQR", StrVal(PyStrInt(302)), 5, NumVal(40), <<TimedBlock(Chars0900, Chars0950, {"thursday"})>>),
     RawRecord("INQR1100", "INQR", StrVal(PyStrInt(303)), 5, NumVal(40), <<TimedBlock(Chars0900, Chars0950, {"friday"})>>),
     \* no seat left
     RawRecord("CSCI1200", "CSCI", StrVal(PyStrInt(103)), 0, NumVal(40), <<TimedBlock(Chars1000, Chars1050, {"friday"})>>),
     \* no credit field and a null meetingTime
     RawRecord("CSCI1200", "CSCI", StrVal(PyStrInt(104)), 5, NoneVal, <<Block(NullMT)>>),
     \* a begin time that is a number
     RawRecord("MATH1020", "MATH", StrVal(PyStrInt(203)), 5, NumVal(40),
               <<Block(MeetingDict(IntVal(900), StrVal(Chars0950), {"monday"}, NumVal(10)))>>)}

\* the requirements mappings a caller passes
RequirementSpecs ==
    {<< Requirement("cs_requirement", << <<"MATH1020">>, <<"CSCI1200">> >>) >>,
     << Requirement("cs_requirement", << <<"CSCI1200">> >>),
        Requirement("math_requirement", << <<"MATH1020">> >>) >>,
     << Requirement("cs_requirement", << <<"CSCI1200", "MATH1020">> >>) >>,
     << Requirement(HASS_KEY, << <<"MATH1020">> >>),
        Requirement("cs_requirement", << <<"CSCI1200">> >>) >>}

OptionsInputs ==
    {NoneVal}
    \cup {OptionsVal([DefaultOptions EXCEPT
                        !.requirements_spec = << Requirement("cs_requirement", << <<"CSCI1200">> >>) >>,
                        !.max_schedules = -1]),
          \* no named requirement: the electives alone
          OptionsVal([DefaultOptions EXCEPT !.requirements_spec = <<>>, !.max_schedules = 2])}

\* the extension hooks a caller passes
PenaltyInputs ==
    {<<Hook("interrupts", 0)>>, <<Hook("raises", 0), Hook("const", -150)>>}

KwargsInputs ==
    {[NoKwargs EXCEPT !.requirements_spec = r, !.max_schedules = m] :
        r \in {NoneVal, MapVal(<<>>)} \cup {MapVal(rs) : rs \in RequirementSpecs},
        m \in {NoneVal, IntVal(1)}}
    \cup {[NoKwargs EXCEPT !.max_schedules = IntVal(0)]}
    \cup {[NoKwargs EXCEPT !.requirements_spec =
                MapVal(<< Requirement("cs_requirement", << <<"MATH1020">>, <<"CSCI1200">> >>) >>),
            !.penalties = HooksVal(h)] : h \in PenaltyInputs}

Init ==
    /\ courses_data \in InjSeqUpTo(Catalog, MaxRecords)
    /\ options \in OptionsInputs
    /\ kwargs \in KwargsInputs
    /\ OptimizeFresh("start")
    /\ OverlapIdle /\ GenIdle /\ CreditsIdle /\ ScoreIdle

optOthers == <<ovVars, genVars, crVars, scVars, inVars>>

\* lines 360-372: max_schedules <= 0 raises
OptionsRejected ==
    /\ pc = "start"
    /\ _resolve_options(options, kwargs).max_schedules <= 0
    /\ opts' = _resolve_options(options, kwargs)
    /\ outcome' = "ValueError"
    /\ pc' = "done"
    /\ UNCHANGED <<rec_idx, courses_dict, hass_dict, requirements, course_combinations,
                   valid_schedules, scored, output, optOthers>>

\* lines 360-380: the options are accepted, the course containers prepared
OptionsResolved ==
    /\ pc = "start"
    /\ _resolve_options(options, kwargs).max_schedules > 0
    /\ opts' = _resolve_options(options, kwargs)
    /\ courses_dict' = [code \in SpecCodes(opts'.requirements_spec) |-> NoneVal]
    /\ hass_dict' = <<>>
    /\ rec_idx' = 1
    /\ pc' = "normalize"
    /\ UNCHANGED <<requirements, course_combinations, valid_schedules, scored, output,
                   outcome, optOthers>>

\* lines 384-385: a record below the seat threshold is passed over
RecordBelowSeats ==
    /\ pc = "normalize" /\ rec_idx <= Len(courses_data)
    /\ BelowSeats(courses_data[rec_idx], opts)
    /\ rec_idx' = rec_idx + 1
    /\ UNCHANGED <<opts, pc, courses_dict, hass_dict, requirements, course_combinations,
                   valid_schedules, scored, output, outcome, optOthers>>

\* line 390: compute_section_credits raises, and so does optimize_courses
RecordCreditsRaise ==
    /\ pc = "normalize" /\ rec_idx <= Len(courses_data)
    /\ ~BelowSeats(courses_data[rec_idx], opts)
    /\ compute_section_credits(courses_data[rec_idx]).raised
    /\ outcome' = "AttributeError"
    /\ pc' = "done"
    /\ UNCHANGED <<opts, rec_idx, courses_dict, hass_dict, requirements, course_combinations,
                   valid_schedules, scored, output, optOthers>>

\* lines 397-409: add_section raises the TypeError of a time that is no
\* text, and so does optimize_courses.  At line 402 the course of the record
\* is in courses_dict, newly built when it was None; hass_dict is reached
\* only when line 402 was not, and then holds the course at line 409.
RecordTimesRaise ==
    /\ pc = "normalize" /\ rec_idx <= Len(courses_data)
    /\ \E section \in {courses_data[rec_idx]} :
          /\ ~BelowSeats(section, opts)
          /\ \E credits \in {compute_section_credits(section)} :
                /\ ~credits.raised
                /\ ~FilteredOut(section, opts)
                /\ \E required \in {AddRequired(courses_dict, section, credits.value)} :
                   \E elective \in {AddElective(hass_dict, section, credits.value, opts)} :
                      /\ required.raised \/ elective.raised
                      /\ courses_dict' = required.value
                      /\ hass_dict' = IF required.raised THEN hass_dict ELSE elective.value
    /\ outcome' = "TypeError"
    /\ pc' = "done"
    /\ UNCHANGED <<opts, rec_idx, requirements, course_combinations,
                   valid_schedules, scored, output, optOthers>>

\* lines 387-409: the record is filtered out or added to its courses
RecordNormalized ==
    /\ pc = "normalize" /\ rec_idx <= Len(courses_data)
    /\ \E section \in {courses_data[rec_idx]} :
          /\ ~BelowSeats(section, opts)
          /\ \E credits \in {compute_section_credits(section)} :
                /\ ~credits.raised
                /\ IF FilteredOut(section, opts)
                   THEN UNCHANGED <<courses_dict, hass_dict>>
                   ELSE \E required \in {AddRequired(courses_dict, section, credits.value)} :
                        \E elective \in {AddElective(hass_dict, section, credits.value, opts)} :
                           /\ ~required.raised /\ ~elective.raised
                           /\ courses_dict' = required.value
                           /\ hass_dict' = elective.value
    /\ rec_idx' = rec_idx + 1
    /\ UNCHANGED <<opts, pc, requirements, course_combinations, valid_schedules, scored,
                   output, outcome, optOthers>>

\* lines 413-435: the requirements are made concrete
ResolveRequirements ==
    /\ pc = "normalize" /\ rec_idx > Len(courses_data)
    /\ requirements' = BuildRequirements(opts.requirements_spec, courses_dict, hass_dict)
    /\ pc' = "slates"
    /\ UNCHANGED <<opts, rec_idx, courses_dict, hass_dict, course_combinations,
                   valid_schedules, scored, output, outcome, optOthers>>

\* lines 438-442: the slates of the requirements before the first one
\* without groups, then return {}
RequirementUnfulfillable ==
    /\ pc = "slates"
    /\ \E r \in 1..Len(requirements) : requirements[r].groups = <<>>
    /\ course_combinations' = SlatesFrom(requirements, << <<>> >>)
    /\ output' = <<>>
    /\ outcome' = "returned"
    /\ pc' = "done"
    /\ UNCHANGED <<opts, rec_idx, courses_dict, hass_dict, requirements,
                   valid_schedules, scored, optOthers>>

\* lines 438-449: one group per requirement, every requirement having one
BuildSlates ==
    /\ pc = "slates"
    /\ \A r \in 1..Len(requirements) : requirements[r].groups # <<>>
    /\ course_combinations' = SlatesFrom(requirements, << <<>> >>)
    /\ pc' = "search"
    /\ UNCHANGED <<opts, rec_idx, courses_dict, hass_dict, requirements, valid_schedules,
                   scored, output, outcome, optOthers>>

AllSchedules(slates) ==
    Concat([c \in 1..Len(slates) |-> generate_section_combinations(slates[c])])

\* lines 453-459: no slate has a conflict-free schedule, return {}
NoValidSchedule ==
    /\ pc = "search"
    /\ AllSchedules(course_combinations) = <<>>
    /\ output' = <<>>
    /\ outcome' = "returned"
    /\ pc' = "done"
    /\ UNCHANGED <<opts, rec_idx, courses_dict, hass_dict, requirements, course_combinations,
                   valid_schedules, scored, optOthers>>

\* lines 453-456: the schedules of all slates, slate after slate
SearchSchedules ==
    /\ pc = "search"
    /\ AllSchedules(course_combinations) # <<>>
    /\ valid_schedules' = AllSchedules(course_combinations)
    /\ pc' = "rank"
    /\ UNCHANGED <<opts, rec_idx, courses_dict, hass_dict, requirements, course_combinations,
                   scored, output, outcome, optOthers>>

\* evaluate_schedule(s, opts.scoring, opts.penalties) for s in valid_schedules
Evaluations(schedules, o) ==
    [i \in 1..Len(schedules) |-> evaluate_schedule(schedules[i], o.scoring, o.penalties)]

\* a hook has ended the scoring of a schedule with an exception that is no
\* Exception
Interrupted(results) == \E i \in 1..Len(results) : results[i].raised

ScoreAll(schedules, results) ==
    [i \in 1..Len(schedules) |-> [schedule |-> schedules[i], score |-> results[i].value]]

\* line 462: every schedule is scored; the exception of an interrupting
\* hook ends optimize_courses
ScoreSchedules ==
    /\ pc = "rank"
    /\ \E results \in {Evaluations(valid_schedules, opts)} :
          IF Interrupted(results)
          THEN /\ outcome' = "BaseException"
               /\ pc' = "done"
               /\ UNCHANGED scored
          ELSE /\ scored' = ScoreAll(valid_schedules, results)
               /\ pc' = "sort"
               /\ UNCHANGED outcome
    /\ UNCHANGED <<opts, rec_idx, courses_dict, hass_dict, requirements, course_combinations,
                   valid_schedules, output, optOthers>>

\* lines 463-488: sort, keep the top max_schedules, return
RankAndReturn ==
    /\ pc = "sort"
    /\ scored' = SortScored(scored)
    /\ output' = FormatOutput(Top(scored', opts.max_schedules))
    /\ outcome' = "returned"
    /\ pc' = "done"
    /\ UNCHANGED <<opts, rec_idx, courses_dict, hass_dict, requirements, course_combinations,
                   valid_schedules, optOthers>>

Next ==
    \/ OptionsRejected \/ OptionsResolved
    \/ RecordBelowSeats \/ RecordCreditsRaise \/ RecordTimesRaise \/ RecordNormalized
    \/ ResolveRequirements
    \/ RequirementUnfulfillable \/ BuildSlates
    \/ NoValidSchedule \/ SearchSchedules
    \/ ScoreSchedules \/ RankAndReturn

Spec == Init /\ [][Next]_vars

------------------------------------------------------------------------
(* Properties of the time-interval model                                  *)

\* C8: overlaps_with is symmetric, false when the days differ, false for
\* adjacent intervals of one day, and on one day true exactly when neither
\* interval ends at or before the other's begin.
C8_OverlapSymmetricHalfOpen ==
    ov_pc = "done" =>
        /\ ov_ab = ov_ba
        /\ (mt_a.day # mt_b.day => ~ov_ab)
        /\ (mt_a.day = mt_b.day /\ mt_a.end_time = mt_b.begin_time => ~ov_ab)
        /\ (mt_a.day = mt_b.day =>
                (ov_ab <=> (mt_a.end_time > mt_b.begin_time /\ mt_b.end_time > mt_a.begin_time)))

\* an adjacent pair of one day has been compared, next to an overlapping one
C8_Witness ==
    /\ ov_pc = "done"
    /\ mt_a.day = mt_b.day /\ mt_a.begin_time < mt_a.end_time
    /\ mt_a.end_time = mt_b.begin_time /\ mt_b.begin_time < mt_b.end_time
    /\ ~ov_ab /\ ~ov_ba

------------------------------------------------------------------------
(* Properties of the combination search                                   *)

\* two meeting times share a day and a moment (stated without overlaps_with)
SameDayIntersect(m1, m2) ==
    /\ m1.day = m2.day
    /\ m1.begin_time < m2.end_time
    /\ m2.begin_time < m1.end_time

SectionsClash(s1, s2) ==
    \E m1 \in Range(s1.meeting_times), m2 \in Range(s2.meeting_times) : SameDayIntersect(m1, m2)

\* one section per course of the slate, in slate order
OnePerCourse(cand, slate) ==
    /\ Len(cand) = Len(slate)
    /\ \A i \in 1..Len(slate) : cand[i] \in Range(slate[i].sections)

PairwiseFree(cand) ==
    \A i, j \in 1..Len(cand) : i < j => ~SectionsClash(cand[i], cand[j])

\* C1: every candidate returned for a slate holds exactly one section of
\* each course, in slate order, and no two of its sections have
\* overlapping meeting times.
C1_CandidatesOnePerCourseConflictFree ==
    gen_pc = "done" =>
        \A c \in 1..Len(gen_result) :
            /\ OnePerCourse(gen_result[c], courses)
            /\ PairwiseFree(gen_result[c])

\* a three-course slate returned a candidate although its first and third
\* course have sections that clash
C1_Witness ==
    /\ gen_pc = "done" /\ Len(courses) = 3 /\ gen_result # <<>>
    /\ \E s1 \in Range(courses[1].sections), s3 \in Range(courses[3].sections) :
            SectionsClash(s1, s3)

RECURSIVE SectionProduct(_)
\* the Cartesian product of the courses' section lists
SectionProduct(slate) ==
    IF slate = <<>> THEN {<<>>}
    ELSE {<<first>> \o rest : first \in Range(Head(slate).sections),
                              rest \in SectionProduct(Tail(slate))}

\* the conflict-filtered Cartesian product
ValidAssignments(slate) == {cand \in SectionProduct(slate) : PairwiseFree(cand)}

\* C2: when every course of the slate has a section, the returned set is
\* the conflict-filtered Cartesian product of the section lists, and a
\* slate of single-section courses without conflicts yields exactly the one
\* candidate holding all of them.
C2_AllValidAssignmentsReturned ==
    (gen_pc = "done" /\ \A i \in 1..Len(courses) : courses[i].sections # <<>>) =>
        /\ Range(gen_result) = ValidAssignments(courses)
        /\ ((\A i \in 1..Len(courses) : Len(courses[i].sections) = 1)
             /\ PairwiseFree([i \in 1..Len(courses) |-> courses[i].sections[1]])
             => gen_result = << [i \in 1..Len(courses) |-> courses[i].sections[1]] >>)

\* a three-course slate with a choice of sections where pruning removed
\* some assignments and kept several
C2_Witness ==
    /\ gen_pc = "done" /\ Len(courses) = 3
    /\ \A i \in 1..3 : Len(courses[i].sections) = 2
    /\ Len(gen_result) >= 2 /\ Len(gen_result) < 8
------------------------------------------------------------------------
(* Properties of the scoring model                                        *)

\* the hooks of the list that return
ReturningHooks(hooks, schedule) ==
    SelectSeq(hooks, LAMBDA h : ~HookRaises(h, schedule) /\ ~HookInterrupts(h, schedule))

\* C9: a hook that raises is isolated: scoring still completes and returns
\* a score, and that score equals the score computed with the raising hooks
\* removed, every other hook before and after them being applied.
C9_RaisingHookContributesZero ==
    (sc_pc \in {"done", "raised"} /\ sc_schedule # <<>>) =>
        /\ sc_pc = "done"
        /\ sc_result = evaluate_schedule(sc_schedule, ScoringWeights,
                                         ReturningHooks(sc_penalties, sc_schedule)).value

------------------------------------------------------------------------
(* Properties of the normalizer                                           *)

\* C10: credit extraction is total: for every raw record, null blocks and
\* blocks with a missing or null meetingTime included, it returns a number
\* and never raises.
C10_CreditsNeverRaise ==
    cr_pc = "done" => ~cr_out.raised

------------------------------------------------------------------------
(* Properties of optimize_courses                                         *)

\* max_schedules as the caller gave it: the keyword if given, else the
\* options object's value, else the default
GivenMaxSchedules ==
    IF kwargs.max_schedules # NoneVal THEN kwargs.max_schedules.v
    ELSE IF options # NoneVal THEN options.o.max_schedules
    ELSE DEFAULT_MAX_SCHEDULES

\* the record takes part in normalization: seats and subject filters passed
Admitted(section) == ~BelowSeats(section, opts) /\ ~FilteredOut(section, opts)

\* the code resolves to a Course with a Section: some admitted record of
\* that course code has a valid meeting time
Offered(code) ==
    \E i \in 1..Len(courses_data) :
        /\ Admitted(courses_data[i])
        /\ courses_data[i].subjectCourse = code
        /\ extract_meeting_times(courses_data[i]).value # <<>>

\* the requirement has no group whose every course code resolves
Unsatisfiable(req) ==
    \A g \in 1..Len(req.groups) : \E i \in 1..Len(req.groups[g]) : ~Offered(req.groups[g][i])

\* C3: if a requirement of the requirements spec has no group whose every
\* course resolves to a Course with a Section, optimize_courses returns the
\* empty mapping, without an exception.
C3_UnsatisfiableRequirementReturnsEmpty ==
    (/\ pc = "done" /\ GivenMaxSchedules > 0
     /\ \E r \in 1..Len(opts.requirements_spec) : Unsatisfiable(opts.requirements_spec[r]))
    => (outcome = "returned" /\ output = <<>>)

\* the concrete groups of a named requirement, as lists of course codes
ConcreteCodeGroups(req) ==
    SelectSeq(req.groups, LAMBDA group : \A i \in 1..Len(group) : Offered(group[i]))

\* the elective courses that resolve
ElectiveCodes ==
    {courses_data[i].subjectCourse : i \in
        {k \in 1..Len(courses_data) :
            /\ Admitted(courses_data[k])
            /\ courses_data[k].subject = opts.hass_subject
            /\ extract_meeting_times(courses_data[k]).value # <<>>}}

\* one concrete group per named requirement and one elective course
SlateChoices ==
    LET n == Len(opts.requirements_spec)
        most == SetMax({0} \cup {Len(opts.requirements_spec[r].groups) : r \in 1..n})
    IN  {f \in [1..n -> 1..most] :
            \A r \in 1..n : f[r] <= Len(ConcreteCodeGroups(opts.requirements_spec[r]))}

ChosenCodes(f, elective) ==
    Concat([r \in 1..Len(opts.requirements_spec) |->
                ConcreteCodeGroups(opts.requirements_spec[r])[f[r]]]) \o <<elective>>

SlateCodes(slate) == [i \in 1..Len(slate) |-> slate[i].subject_course]

\* line 449: the slates handed to the search; the return of line 442 comes
\* before it, so a run with a requirement without groups hands over none
course_combos ==
    IF \E r \in 1..Len(requirements) : requirements[r].groups = <<>> THEN <<>>
    ELSE course_combinations

\* C4: the course slates are exactly the Cartesian product of the concrete
\* group lists: each slate is the concatenation, in requirement order, of
\* all courses of one concrete group per named requirement, then of one
\* elective course.
C4_SlatesAreProductOfConcreteGroups ==
    (pc \in {"search", "rank", "sort"} \/ (pc = "done" /\ outcome = "returned")) =>
        {SlateCodes(course_combos[c]) : c \in 1..Len(course_combos)}
            = {ChosenCodes(f, e) : f \in SlateChoices, e \in ElectiveCodes}

\* C5: the returned mapping has at most max_schedules entries, labelled
\* "Schedule 1" .. "Schedule k" in order, with non-increasing scores.
C5_OutputBoundedLabelledSorted ==
    (pc = "done" /\ outcome = "returned") =>
        /\ Len(output) <= GivenMaxSchedules
        /\ \A i \in 1..Len(output) : output[i].label = <<"Schedule", i>>
        /\ \A i \in 1..(Len(output) - 1) : output[i].score >= output[i + 1].score

\* two entries of different scores were returned and a candidate left out
C5_Witness ==
    /\ pc = "done" /\ outcome = "returned"
    /\ Len(output) = 2 /\ Len(valid_schedules) > 2
    /\ output[1].score > output[2].score

\* the scores of the candidates, in the order the search produced them
RECURSIVE ScoresOf(_)
ScoresOf(schedules) ==
    IF schedules = <<>> THEN <<>>
    ELSE <<evaluate_schedule(Head(schedules), opts.scoring, opts.penalties).value>>
         \o ScoresOf(Tail(schedules))

CandidateScores == ScoresOf(valid_schedules)

\* C6: the output is the first min(max_schedules, n) of the n candidates in
\* descending order of score, candidates of one score in the order the
\* search produced them.
C6_OutputIsStableTopN ==
    (pc = "done" /\ outcome = "returned" /\ valid_schedules # <<>>) =>
        LET n == Len(valid_schedules)
            sc == CandidateScores
            \* the place of candidate i in the ranking: behind the candidates
            \* of a higher score and the earlier candidates of its own score
            rank == [i \in 1..n |->
                        1 + Cardinality({j \in 1..n : sc[j] > sc[i] \/ (sc[j] = sc[i] /\ j < i)})]
            at == [k \in 1..n |-> CHOOSE i \in 1..n : rank[i] = k]
        IN  /\ Len(output) = IF n < GivenMaxSchedules THEN n ELSE GivenMaxSchedules
            /\ \A k \in 1..Len(output) :
                  /\ output[k].score = sc[at[k]]
                  /\ output[k].sections =
                        [x \in 1..Len(valid_schedules[at[k]]) |-> SectionOut(valid_schedules[at[k]][x])]

\* three candidates, the last two of one score below the first one's, and
\* only two of them returned
C6_Witness ==
    /\ pc = "done" /\ outcome = "returned"
    /\ Len(valid_schedules) = 3 /\ Len(output) = 2
    /\ CandidateScores[2] = CandidateScores[3]
    /\ CandidateScores[1] > CandidateScores[2]
    /\ output[2].sections # [x \in 1..Len(valid_schedules[3]) |-> SectionOut(valid_schedules[3][x])]

\* C7: a max_schedules of zero or less, by keyword or by the options object,
\* ends the call with the configuration error before a record is normalized,
\* a requirement resolved or a combination enumerated, and no mapping is
\* returned.
C7_NonPositiveMaxFailsFast ==
    GivenMaxSchedules <= 0 =>
        /\ pc \in {"start", "done"}
        /\ (pc = "done" => outcome = "ValueError")
        /\ outcome # "returned"
        /\ rec_idx = 0 /\ courses_dict = NoneVal /\ hass_dict = <<>>
        /\ requirements = <<>> /\ course_combinations = <<>>
        /\ valid_schedules = <<>> /\ scored = <<>> /\ output = <<>>

\* the call was refused for a keyword of zero although the options object
\* holds a positive value and the catalog has records
C7_Witness ==
    /\ pc = "done" /\ outcome = "ValueError"
    /\ kwargs.max_schedules = IntVal(0)
    /\ options # NoneVal /\ options.o.max_schedules > 0
    /\ courses_data # <<>>

------------------------------------------------------------------------
(* Specification SpecNormalize: the normalization loop of                 *)
(* optimize_courses over records whose meeting blocks are deficient in    *)
(* every way the normalizer has to cope with                              *)

Chars9c00 == <<"9", ":", "0", "0">>
Chars930 == <<"9", "3", "0">>
Chars0900b == <<"0", "9", "0", "0", " ">>
\* 9 hours 5 minutes, each after a vertical tab
Chars9v5 == <<"", "9", "", "5">>

\* what a record may hold as beginTime or endTime: null, the empty text,
\* HHMM texts, texts that are not of the HHMM form, and numbers
NormTimes ==
    {NoneVal, StrVal(<<>>), StrVal(Chars0900), StrVal(Chars0950),
     StrVal(Chars9c00), StrVal(Chars930), StrVal(Chars0900b), StrVal(Chars9v5),
     IntVal(0), IntVal(900)}

\* the meeting blocks a record is drawn from
NormBlocks ==
    {NullBlock, Block(MissingMT), Block(NullMT)}
    \cup {Block(MeetingDict(b, e, {"monday"}, NumVal(10))) : b, e \in NormTimes}
    \cup {Block(MeetingDict(StrVal(Chars0900), StrVal(Chars0950), flags, NumVal(10))) :
            flags \in {{}, {"tuesday", "thursday"}}}

\* a block after which a deficient block must still be passed over alone
SoundBlock == TimedBlock(Chars1000, Chars1050, {"friday"})

NormBlockLists ==
    {<<b>> : b \in NormBlocks} \cup {<<b, SoundBlock>> : b \in NormBlocks}

\* the meeting blocks of the second record
NormSecondLists ==
    {<<SoundBlock>>, <<NullBlock>>, <<Block(MissingMT)>>, <<Block(NullMT)>>}
    \cup {<<Block(MeetingDict(b, StrVal(Chars0950), {"monday"}, NumVal(10)))>> : b \in NormTimes}

\* a record of a required course, then a record of the same course or of an
\* elective course, the second one with or without a free seat and with or
\* without a creditHours figure
NormCatalogs ==
    {<<RawRecord("CSCI1200", "CSCI", StrVal(<<" ">> \o PyStrInt(101) \o <<" ">>), 5, NumVal(40), b1),
       RawRecord(c[1], c[2], IntVal(102), seats, credit, b2)>> :
        b1 \in NormBlockLists, b2 \in NormSecondLists, seats \in {0, 5},
        credit \in {NumVal(40), NoneVal},
        c \in {<<"CSCI1200", "CSCI">>, <<"INQR1100", "INQR">>}}

\* the keywords of the call: the requirements, and max_schedules left out or 0
NormKwargs ==
    {[NoKwargs EXCEPT !.requirements_spec =
                        MapVal(<< Requirement("cs_requirement", << <<"CSCI1200">> >>) >>),
                      !.max_schedules = m] : m \in {NoneVal, IntVal(0)}}

InitNormalize ==
    /\ courses_data \in NormCatalogs
    /\ options = NoneVal
    /\ kwargs \in NormKwargs
    /\ OptimizeFresh("start")
    /\ OverlapIdle /\ GenIdle /\ CreditsIdle /\ ScoreIdle

\* lines 360-409: the options are rejected or resolved, then each record is
\* passed over, makes the call raise, or is normalized
NextNormalize ==
    \/ OptionsRejected \/ OptionsResolved
    \/ RecordBelowSeats \/ RecordCreditsRaise \/ RecordTimesRaise \/ RecordNormalized

SpecNormalize == InitNormalize /\ [][NextNormalize]_vars

------------------------------------------------------------------------
(* Properties of normalization                                            *)

\* the text has the form HHMM of a time of day
WellFormedHHMM(value) ==
    /\ value.t = "str" /\ Len(value.s) = 4
    /\ \A i \in 1..4 : IsDigit(value.s[i])
    /\ 10 * DigitOf(value.s[1]) + DigitOf(value.s[2]) < 24
    /\ 10 * DigitOf(value.s[3]) + DigitOf(value.s[4]) < 60

\* minutes since midnight of a well-formed HHMM text
ClockMinutes(value) ==
    (10 * DigitOf(value.s[1]) + DigitOf(value.s[2])) * 60
        + 10 * DigitOf(value.s[3]) + DigitOf(value.s[4])

\* the block has a begin and an end, both well formed, begin before end
SoundTimes(block) ==
    /\ block.t = "dict" /\ block.meetingTime.t = "dict"
    /\ WellFormedHHMM(block.meetingTime.beginTime)
    /\ WellFormedHHMM(block.meetingTime.endTime)
    /\ ClockMinutes(block.meetingTime.beginTime) < ClockMinutes(block.meetingTime.endTime)

\* the meeting time is what a block of sound times says for a flagged day
ContributedBy(mt, block) ==
    /\ SoundTimes(block)
    /\ mt.begin_time = ClockMinutes(block.meetingTime.beginTime)
    /\ mt.end_time = ClockMinutes(block.meetingTime.endTime)
    /\ mt.day \in 0..4 /\ block.meetingTime[MEETING_KEYS[mt.day + 1]]

\* the Courses held after normalization
HeldCourses ==
    {courses_dict[code] : code \in {c \in DOMAIN courses_dict : courses_dict[c] # NoneVal}}
        \cup Range(hass_dict)

\* the raw record a Section was made from
RecordOf(section) ==
    CHOOSE r \in Range(courses_data) : SectionCrn(r) = section.crn

\* C11: after normalization every Section held by a Course has a meeting
\* time, every meeting time begins before it ends, and every meeting time
\* comes from a block whose begin and end are present, well formed and in
\* order: a deficient block contributes none, a record without a meeting
\* time is no Section.
C11_SectionsHaveSoundMeetingTimes ==
    (pc = "normalize") =>
        \A course \in HeldCourses : \A s \in 1..Len(course.sections) :
            LET section == course.sections[s]
                blocks == RecordOf(section).meetingsFaculty
            IN  /\ section.meeting_times # <<>>
                /\ \A m \in 1..Len(section.meeting_times) :
                      /\ section.meeting_times[m].begin_time < section.meeting_times[m].end_time
                      /\ \E b \in 1..Len(blocks) :
                            ContributedBy(section.meeting_times[m], blocks[b])

------------------------------------------------------------------------
(* Properties of option resolution                                        *)

\* C12: when the caller passes the requirements_spec keyword, an empty
\* mapping included, the requirements of the run are that mapping, not those
\* of the options object nor the built-in default.
C12_KeywordRequirementsOverride ==
    (pc # "start" /\ kwargs.requirements_spec # NoneVal) =>
        /\ opts.requirements_spec = kwargs.requirements_spec.m
        /\ (courses_dict # NoneVal =>
                DOMAIN courses_dict = SpecCodes(kwargs.requirements_spec.m))

------------------------------------------------------------------------
(* Properties of the scoring example                                      *)

\* C13: with the default weights and no hooks, the one-section schedule
\* meeting Mon/Wed/Fri 10:00-10:50 scores strictly higher than the same
\* schedule with a Tuesday 07:00-07:50 meeting added, be it added to the
\* section or as a section of its own.
C13_AddedEarlyMeetingScoresLower ==
    (/\ sc_pc = "done" /\ sc_penalties = <<>>
     /\ sc_schedule \in {<<MonWedFriTueSection>>, <<MonWedFriSection, TuesdaySection>>})
    => evaluate_schedule(<<MonWedFriSection>>, ScoringWeights, <<>>).value > sc_result

\* the schedule with the added Tuesday meeting was scored 61.5, below the
\* 97.5 of the schedule without it
C13_Witness ==
    /\ sc_pc = "done" /\ sc_penalties = <<>>
    /\ sc_schedule = <<MonWedFriTueSection>>
    /\ sc_result = 6150
    /\ evaluate_schedule(<<MonWedFriSection>>, ScoringWeights, <<>>).value = 9750

------------------------------------------------------------------------
(* Properties of the emission order                                       *)

RECURSIVE ExtensionsOf(_, _)
\* the admitted extensions of one partial list, in section order
ExtensionsOf(combo, sects) ==
    IF sects = <<>> THEN <<>>
    ELSE (IF Admits(combo, Head(sects)) THEN <<Append(combo, Head(sects))>> ELSE <<>>)
         \o ExtensionsOf(combo, Tail(sects))

\* partial lists in the outer loop, sections in the inner loop
GroupedByPartialList(sects, cs) ==
    Concat([j \in 1..Len(cs) |-> ExtensionsOf(cs[j], sects)])

\* C14: at each course of the slate the admitted extensions are produced
\* with the surviving partial lists in the outer loop and the sections of
\* the course in the inner loop: all extensions of the first partial list,
\* in section order, come before any extension of the second.
C14_EmissionGroupedByPartialList ==
    [][(gen_pc = "loop" /\ course_idx' = course_idx + 1)
        => combos' = GroupedByPartialList(courses[course_idx].sections, combos)]_vars

------------------------------------------------------------------------
(* Properties of the elective requirement                                 *)

\* the course codes of the elective subject in the catalog
ElectiveSubjectCodes ==
    {courses_data[i].subjectCourse : i \in
        {k \in 1..Len(courses_data) : courses_data[k].subject = opts.hass_subject}}

\* the sections of a returned schedule that belong to an elective course
ElectiveSections(entry) ==
    {k \in 1..Len(entry.sections) : entry.sections[k].subject_course \in ElectiveSubjectCodes}

\* C15: the elective requirement is mandatory: when no course of the
\* elective subject has a section after normalization and filtering, the
\* call returns the empty mapping, whatever the named requirements resolve
\* to; and every returned schedule holds exactly one section of an elective
\* course (no named requirement names an elective course here).
C15_ElectiveRequirementMandatory ==
    (pc = "done" /\ GivenMaxSchedules > 0
     /\ SpecCodes(opts.requirements_spec) \cap ElectiveSubjectCodes = {}) =>
        /\ ElectiveCodes = {} => (outcome = "returned" /\ output = <<>>)
        /\ outcome = "returned" =>
              \A i \in 1..Len(output) : Cardinality(ElectiveSections(output[i])) = 1

========================================================================
